---- MODULE Spec2Model ----
(***************************************************************************)
(* Static-analysis-to-graph pipeline of fastapi-repo-chat-agent:           *)
(*   agents/indexer/parser.py      PythonASTParser (extraction)            *)
(*   agents/indexer/tools.py       IndexerTools (index_file, jobs)         *)
(*   agents/indexer/repository.py  RepositoryManager (clone, discovery)    *)
(*   database/neo4j_client.py      Neo4jClient, get_neo4j_client           *)
(*                                                                         *)
(* Python strings are sequences of tokens, so that f"{a}.{b}" is           *)
(* a \o <<".">> \o b and "a.b" built in two ways is one value.             *)
(***************************************************************************)
EXTENDS Integers, Sequences, FiniteSets, TLC

(***************************************************************************)
(* Bounds of the model.                                                    *)
(***************************************************************************)
\* number of index_file calls a behaviour of Spec records
MaxOps == 3
\* number of index_repository calls a behaviour of SpecJob makes
MaxCalls == 1
\* number of Python files in the repository a job indexes
MaxFiles == 3
\* number of statements in the module body of a drawn source text
MaxStmts == 2
\* number of extractions of the drawn text a behaviour of SpecParse records
MaxRuns == 2
\* number of graph query tool calls a behaviour of SpecQuery makes
MaxAsk == 2

(***************************************************************************)
(* Strings.                                                                *)
(***************************************************************************)
Str(tok) == <<tok>>

\* f"{a}.{b}"
Dot(a, b) == a \o <<".">> \o b

\* Python's None where a string may stand; no identifier or unparsed
\* expression is this token.
None == <<"<None>">>

\* truthiness of an Optional[str]: None and "" are falsy
Truthy(s) == s # None /\ s # <<>>

RECURSIVE SeqRange(_)
SeqRange(s) == IF s = <<>> THEN {} ELSE {Head(s)} \cup SeqRange(Tail(s))

(***************************************************************************)
(* Abstract syntax trees (what ast.parse returns).  Every statement has    *)
(* the same fields; a field a statement kind does not have is empty.       *)
(* An expression is a Name, an Attribute (text = its unparsing) or         *)
(* something else (a Subscript, ...), wrapped in `calls` Call nodes.       *)
(***************************************************************************)
Name(id) == [kind |-> "Name", text |-> Str(id), calls |-> 0]
Attribute(text) == [kind |-> "Attribute", text |-> text, calls |-> 0]
OtherExpr == [kind |-> "Other", text |-> <<>>, calls |-> 0]
Call(func) == [func EXCEPT !.calls = @ + 1]

\* ast.arg: annotation is <<>> (absent) or <<text>> (its unparsing)
Arg(name, annotation, lineno) ==
    [arg |-> Str(name), annotation |-> annotation, lineno |-> lineno]

\* ast.arguments: the parameters declared before a "/" (positional-only),
\* and the other positional parameters
Arguments(posonlyargs, args) == [posonlyargs |-> posonlyargs, args |-> args]

ClassDef(name, bases, decorator_list, doc, body, lineno) ==
    [kind |-> "ClassDef", name |-> Str(name), bases |-> bases,
     decorator_list |-> decorator_list, args |-> Arguments(<<>>, <<>>),
     doc |-> doc,
     body |-> body, names |-> <<>>, module |-> None, lineno |-> lineno]

FunctionDef(kind, name, args, decorator_list, doc, body, lineno) ==
    [kind |-> kind, name |-> Str(name), bases |-> <<>>,
     decorator_list |-> decorator_list, args |-> args, doc |-> doc,
     body |-> body, names |-> <<>>, module |-> None, lineno |-> lineno]

\* import n1, n2, ...
Import(names, lineno) ==
    [kind |-> "Import", name |-> <<>>, bases |-> <<>>, decorator_list |-> <<>>,
     args |-> Arguments(<<>>, <<>>), doc |-> <<>>, body |-> <<>>, names |-> names,
     module |-> None, lineno |-> lineno]

\* from module import n1, n2, ...   (module = None for "from . import x")
ImportFrom(module, names, lineno) ==
    [kind |-> "ImportFrom", name |-> <<>>, bases |-> <<>>,
     decorator_list |-> <<>>, args |-> Arguments(<<>>, <<>>), doc |-> <<>>,
     body |-> <<>>, names |-> names, module |-> module, lineno |-> lineno]

\* any other compound statement (if, try, with, ...) with its nested body
Block(body, lineno) ==
    [kind |-> "Block", name |-> <<>>, bases |-> <<>>, decorator_list |-> <<>>,
     args |-> Arguments(<<>>, <<>>), doc |-> <<>>, body |-> body, names |-> <<>>,
     module |-> None, lineno |-> lineno]

\* a source text: ok = FALSE is a text ast.parse rejects (SyntaxError);
\* doc is what ast.get_docstring returns for the module ("" when absent)
Source(doc, body) == [ok |-> TRUE, doc |-> doc, body |-> body]
Malformed == [ok |-> FALSE, doc |-> <<>>, body |-> <<>>]

IsFunctionDef(node) == node.kind \in {"FunctionDef", "AsyncFunctionDef"}

(***************************************************************************)
(* EntityInfo and RelationshipInfo.                                        *)
(***************************************************************************)
EntityInfo(entity_type, name, line_number, properties) ==
    [entity_type |-> entity_type, name |-> name, line_number |-> line_number,
     properties |-> properties]

RelationshipInfo(rel_type, source, target) ==
    [rel_type |-> rel_type, source |-> source, target |-> target]

\* EntityInfo.to_dict: {"entity_type":, "name":, "line_number":, **properties};
\* a key of properties overrides the key before it
EntityToDict(e) ==
    e.properties @@ [entity_type |-> e.entity_type, name |-> e.name,
                     line_number |-> e.line_number]

\* RelationshipInfo.to_dict (properties are always empty)
RelToDict(r) ==
    [rel_type |-> r.rel_type, source |-> r.source, target |-> r.target]

(***************************************************************************)
(* PythonASTParser.  The parser's two lists are threaded through the       *)
(* operators as acc = [entities, relationships].                           *)
(***************************************************************************)
AddEntity(acc, e) == [acc EXCEPT !.entities = Append(@, e)]
AddRel(acc, r) == [acc EXCEPT !.relationships = Append(@, r)]

\* _get_name_from_node
RECURSIVE GetNameFromNode(_)
GetNameFromNode(node) ==
    IF node.calls > 0 THEN GetNameFromNode([node EXCEPT !.calls = @ - 1])
    ELSE IF node.kind = "Name" THEN node.text
    ELSE IF node.kind = "Attribute" THEN node.text
    ELSE None

\* isinstance(d, ast.Name) and d.id == "ABC"
IsABCName(d) == d.calls = 0 /\ d.kind = "Name" /\ d.text = Str("ABC")

\* _add_parameter
AddParameter(acc, parent, arg, position) ==
    LET param_name == parent \o <<".", "param", ".">> \o arg.arg
        type_annotation ==
            IF arg.annotation # <<>> THEN arg.annotation[1] ELSE None
    IN  AddRel(
          AddEntity(acc,
            EntityInfo("Parameter", param_name, arg.lineno,
                       [name |-> arg.arg, type_annotation |-> type_annotation,
                        position |-> position])),
          RelationshipInfo("HAS_PARAMETER", parent, param_name))

\* _add_decorator
AddDecorator(acc, parent, decorator_name) ==
    LET dec_name == parent \o <<".", "decorator", ".">> \o decorator_name
    IN  AddRel(
          AddEntity(acc,
            EntityInfo("Decorator", dec_name, 0, [name |-> decorator_name])),
          RelationshipInfo("DECORATED_BY", parent, decorator_name))

\* _add_docstring
AddDocstring(acc, parent, content, line_number) ==
    LET doc_name == parent \o <<".", "docstring">>
    IN  AddRel(
          AddEntity(acc,
            EntityInfo("Docstring", doc_name, line_number,
                       [content |-> content])),
          RelationshipInfo("DOCUMENTED_BY", parent, doc_name))

\* for i, arg in enumerate(node.args.args): self._add_parameter(...)
RECURSIVE AddParameters(_, _, _, _)
AddParameters(acc, parent, args, i) ==
    IF i >= Len(args) THEN acc
    ELSE AddParameters(AddParameter(acc, parent, args[i + 1], i),
                       parent, args, i + 1)

\* the decorator loop of _parse_function (skip = the method markers) and of
\* _parse_class (skip = {})
RECURSIVE AddDecorators(_, _, _, _)
AddDecorators(acc, parent, decorator_list, skip) ==
    IF decorator_list = <<>> THEN acc
    ELSE LET decorator_name == GetNameFromNode(Head(decorator_list))
         IN  AddDecorators(
               IF Truthy(decorator_name) /\ decorator_name \notin skip
               THEN AddDecorator(acc, parent, decorator_name) ELSE acc,
               parent, Tail(decorator_list), skip)

\* signature = f"{node.name}({', '.join(args)})"
RECURSIVE JoinArgs(_)
JoinArgs(args) ==
    IF args = <<>> THEN <<>>
    ELSE IF Len(args) = 1 THEN args[1].arg
    ELSE args[1].arg \o <<", ">> \o JoinArgs(Tail(args))

Signature(node) ==
    node.name \o <<"(">> \o JoinArgs(node.args.args) \o <<")">>

\* _parse_function
ParseFunction(acc, module_path, node, is_method, parent_class) ==
    LET entity_type == IF is_method THEN "Method" ELSE "Function"
        full_name == IF is_method THEN Dot(parent_class, node.name)
                     ELSE Dot(module_path, node.name)
        docstring == node.doc
        is_async == node.kind = "AsyncFunctionDef"
        dec_names == {GetNameFromNode(d) : d \in SeqRange(node.decorator_list)}
        is_static == is_method /\ Str("staticmethod") \in dec_names
        is_classmethod == is_method /\ Str("classmethod") \in dec_names
        base_props == [name |-> node.name, module_path |-> module_path,
                       docstring |-> docstring, is_async |-> is_async,
                       signature |-> Signature(node)]
        properties ==
            IF is_method
            THEN base_props @@ [is_static |-> is_static,
                                is_classmethod |-> is_classmethod]
            ELSE base_props
        parent == IF is_method THEN parent_class ELSE module_path
        a1 == AddEntity(acc,
                EntityInfo(entity_type, full_name, node.lineno, properties))
        a2 == AddRel(a1, RelationshipInfo("CONTAINS", parent, full_name))
        a3 == AddParameters(a2, full_name, node.args.args, 0)
        a4 == AddDecorators(a3, full_name, node.decorator_list,
                            {Str("staticmethod"), Str("classmethod")})
    IN  IF docstring # <<>>
        THEN AddDocstring(a4, full_name, docstring, node.lineno)
        ELSE a4

\* a loop over the bases that has no exception for "ABC"
RECURSIVE AddBases_KeepSentinel(_, _, _)
AddBases_KeepSentinel(acc, class_name, bases) ==
    IF bases = <<>> THEN acc
    ELSE LET base_name == GetNameFromNode(Head(bases))
         IN  AddBases_KeepSentinel(
               IF Truthy(base_name)
               THEN AddRel(acc, RelationshipInfo("INHERITS_FROM", class_name,
                                                 base_name))
               ELSE acc,
               class_name, Tail(bases))

\* for base in node.bases: INHERITS_FROM unless the name is falsy or "ABC"
RECURSIVE AddBases(_, _, _)
AddBases(acc, class_name, bases) ==
    IF bases = <<>> THEN acc
    ELSE LET base_name == GetNameFromNode(Head(bases))
         IN  AddBases(
               IF Truthy(base_name) /\ base_name # Str("ABC")
               THEN AddRel(acc, RelationshipInfo("INHERITS_FROM", class_name,
                                                 base_name))
               ELSE acc,
               class_name, Tail(bases))

\* for item in node.body: if it is a function definition, parse it as a method
RECURSIVE AddMethods(_, _, _, _)
AddMethods(acc, module_path, class_name, body) ==
    IF body = <<>> THEN acc
    ELSE AddMethods(
           IF IsFunctionDef(Head(body))
           THEN ParseFunction(acc, module_path, Head(body), TRUE, class_name)
           ELSE acc,
           module_path, class_name, Tail(body))

\* _parse_class
ParseClass(acc, module_path, node) ==
    LET class_name == Dot(module_path, node.name)
        docstring == node.doc
        is_abstract == \E d \in SeqRange(node.bases) : IsABCName(d)
        a1 == AddEntity(acc,
                EntityInfo("Class", class_name, node.lineno,
                           [name |-> node.name, module_path |-> module_path,
                            docstring |-> docstring,
                            is_abstract |-> is_abstract]))
        a2 == AddRel(a1, RelationshipInfo("CONTAINS", module_path, class_name))
        a3 == AddBases(a2, class_name, node.bases)
        a4 == AddDecorators(a3, class_name, node.decorator_list, {})
        a5 == AddMethods(a4, module_path, class_name, node.body)
    IN  IF docstring # <<>>
        THEN AddDocstring(a5, class_name, docstring, node.lineno)
        ELSE a5

\* the ast.Import branch of _parse_import: one entity and one edge per alias
RECURSIVE AddImportAliases(_, _, _, _)
AddImportAliases(acc, module_path, names, lineno) ==
    IF names = <<>> THEN acc
    ELSE LET alias == Head(names)
             import_name == module_path \o <<".", "import", ".">> \o alias
         IN  AddImportAliases(
               AddRel(
                 AddEntity(acc,
                   EntityInfo("Import", import_name, lineno,
                              [module_name |-> alias,
                               imported_names |-> <<alias>>,
                               is_from_import |-> FALSE])),
                 RelationshipInfo("IMPORTS", module_path, alias)),
               module_path, Tail(names), lineno)

\* _parse_import
ParseImport(acc, module_path, node) ==
    IF node.kind = "Import"
    THEN AddImportAliases(acc, module_path, node.names, node.lineno)
    ELSE LET module == IF node.module = None THEN <<>> ELSE node.module
             import_name == module_path \o <<".", "import", ".">> \o module
             a1 == AddEntity(acc,
                     EntityInfo("Import", import_name, node.lineno,
                                [module_name |-> module,
                                 imported_names |-> node.names,
                                 is_from_import |-> TRUE]))
         IN  IF module # <<>>
             THEN AddRel(a1, RelationshipInfo("IMPORTS", module_path, module))
             ELSE a1

\* the loop over ast.walk(tree): breadth first, a queue of nodes; top = the
\* node is an element of tree.body (_is_top_level)
RECURSIVE Walk(_, _, _)
Walk(acc, module_path, queue) ==
    IF queue = <<>> THEN acc
    ELSE LET node == Head(queue).node
             top == Head(queue).top
             rest == Tail(queue) \o
                     [i \in 1..Len(node.body) |->
                        [node |-> node.body[i], top |-> FALSE]]
         IN  Walk(
               IF node.kind = "ClassDef"
               THEN ParseClass(acc, module_path, node)
               ELSE IF IsFunctionDef(node)
               THEN (IF top
                     THEN ParseFunction(acc, module_path, node, FALSE, None)
                     ELSE acc)
               ELSE IF node.kind \in {"Import", "ImportFrom"}
               THEN ParseImport(acc, module_path, node)
               ELSE acc,
               module_path, rest)

\* PythonASTParser.__init__: the two lists start empty
NewParser == [entities |-> <<>>, relationships |-> <<>>]

\* parse_file on a parser in state acc: [ok |-> FALSE] when ParsingError is
\* raised, else the two lists
ParseFile(acc, file_path, module_path, source) ==
    IF ~source.ok THEN [ok |-> FALSE, entities |-> <<>>, relationships |-> <<>>]
    ELSE LET a1 == AddEntity(acc,
                     EntityInfo("Module", module_path, 1,
                                [path |-> module_path, file_path |-> file_path,
                                 docstring |-> source.doc]))
             out == Walk(a1, module_path,
                         [i \in 1..Len(source.body) |->
                            [node |-> source.body[i], top |-> TRUE]])
         IN  [ok |-> TRUE, entities |-> out.entities,
              relationships |-> out.relationships]

(***************************************************************************)
(* RepositoryManager: files of the clone, as the parts of their path       *)
(* relative to clone_path, the last part without its ".py".                *)
(***************************************************************************)
\* str(file_path) of the file with these parts
RECURSIVE JoinPath(_)
JoinPath(parts) ==
    IF Len(parts) = 1 THEN <<parts[1], ".py">>
    ELSE <<parts[1], "/">> \o JoinPath(Tail(parts))

RECURSIVE JoinDots(_)
JoinDots(parts) ==
    IF parts = <<>> THEN <<>>
    ELSE IF Len(parts) = 1 THEN <<parts[1]>>
    ELSE <<parts[1], ".">> \o JoinDots(Tail(parts))

\* get_module_path: drop ".py", drop a final "__init__", join with dots
GetModulePath(parts) ==
    JoinDots(IF parts[Len(parts)] = "__init__"
             THEN SubSeq(parts, 1, Len(parts) - 1) ELSE parts)

(***************************************************************************)
(* The files of the repository that index_file is run on.                  *)
(*   a.py    import b                                                      *)
(*           class Foo(Base):                                              *)
(*               def bar(self, x): """doc"""                               *)
(*   b.py    class Foo: ...                                                *)
(*           def f(): ...                                                  *)
(*   c.py    from b import f                                               *)
(*   bad.py  a text with a syntax error                                    *)
(***************************************************************************)
FileA ==
    [parts |-> <<"a">>,
     source |-> Source(<<>>,
       << Import(<<Str("b")>>, 1),
          ClassDef("Foo", <<Name("Base")>>, <<>>, <<>>,
            << FunctionDef("FunctionDef", "bar",
                 Arguments(<<>>, <<Arg("self", <<>>, 3), Arg("x", <<>>, 3)>>),
                 <<>>,
                 Str("doc"), <<>>, 3) >>, 2) >>)]

FileB ==
    [parts |-> <<"b">>,
     source |-> Source(<<>>,
       << ClassDef("Foo", <<>>, <<>>, <<>>, <<>>, 1),
          FunctionDef("FunctionDef", "f", Arguments(<<>>, <<>>), <<>>, <<>>,
                      <<>>, 2) >>)]

FileC ==
    [parts |-> <<"c">>,
     source |-> Source(<<>>, << ImportFrom(Str("b"), <<Str("f")>>, 1) >>)]

FileBad == [parts |-> <<"bad">>, source |-> Malformed]

Corpus == <<FileA, FileB, FileC, FileBad>>

FileIds == DOMAIN Corpus

\* PythonASTParser(file_path, module_path).parse_file() of a file of the clone
ParseOf(f) ==
    ParseFile(NewParser, JoinPath(Corpus[f].parts),
              GetModulePath(Corpus[f].parts), Corpus[f].source)

(***************************************************************************)
(* The graph store.  nodes is the sequence of nodes in creation order (a   *)
(* node's identity is its index), each [label, name, props]; rels is the   *)
(* bag of relationships [type, s, t] between node identities.              *)
(***************************************************************************)
EmptyBag == [e \in {} |-> 0]

BagCount(b, e) == IF e \in DOMAIN b THEN b[e] ELSE 0

BagAdd(b, e) ==
    [x \in DOMAIN b \cup {e} |-> BagCount(b, x) + (IF x = e THEN 1 ELSE 0)]

\* the property keys whose value can be None (parser.py:324)
NullableKeys == {"type_annotation"}

\* SET e += {map}: keys of the map overwrite, a null value removes the key
SetPlus(old, new) ==
    LET removed == {k \in DOMAIN new \cap NullableKeys : new[k] = None}
    IN  [k \in (DOMAIN old \cup DOMAIN new) \ removed |->
           IF k \in DOMAIN new THEN new[k] ELSE old[k]]

\* a node created by MERGE with its properties set
NewNode(label, name, props) ==
    [label |-> label, name |-> name, props |-> SetPlus(<<>>, props)]

\* the statement written with CREATE in place of MERGE
MergeNode_Create(ns, label, name, props) ==
    Append(ns, NewNode(label, name, props))

\* MERGE (e:label {name: $name}) SET e += {props}
MergeNode(ns, label, name, props) ==
    IF \E i \in DOMAIN ns : ns[i].label = label /\ ns[i].name = name
    THEN [i \in DOMAIN ns |->
            IF ns[i].label = label /\ ns[i].name = name
            THEN [ns[i] EXCEPT !.props = SetPlus(@, props)]
            ELSE ns[i]]
    ELSE Append(ns, NewNode(label, name, props))

\* MATCH (s {name: $source}), (t {name: $target}): the matched pairs
MatchPairs(ns, source, target) ==
    {p \in (DOMAIN ns) \X (DOMAIN ns) :
        ns[p[1]].name = source /\ ns[p[2]].name = target}

RECURSIVE MergePairs(_, _, _)
MergePairs(rs, rel_type, pairs) ==
    IF pairs = {} THEN rs
    ELSE LET p == CHOOSE q \in pairs : TRUE
             r == [type |-> rel_type, s |-> p[1], t |-> p[2]]
         IN  MergePairs(IF BagCount(rs, r) = 0 THEN BagAdd(rs, r) ELSE rs,
                        rel_type, pairs \ {p})

\* MATCH (s {name: $source}), (t {name: $target}) MERGE (s)-[r:rel_type]->(t)
MergeRel(ns, rs, rel_type, source, target) ==
    MergePairs(rs, rel_type, MatchPairs(ns, source, target))

\* the entity loop of index_file (tools.py:129-145) applied by the batch
RECURSIVE WriteEntities(_, _)
WriteEntities(ns, entities) ==
    IF entities = <<>> THEN ns
    ELSE LET entity_dict == EntityToDict(Head(entities))
             props == [k \in DOMAIN entity_dict \ {"entity_type", "name"} |->
                         entity_dict[k]]
         IN  WriteEntities(
               MergeNode(ns, entity_dict.entity_type, entity_dict.name, props),
               Tail(entities))

\* the relationship loop of index_file (tools.py:148-160) applied by the batch
RECURSIVE WriteRelationships(_, _, _)
WriteRelationships(ns, rs, relationships) ==
    IF relationships = <<>> THEN rs
    ELSE LET rel_dict == RelToDict(Head(relationships))
         IN  WriteRelationships(ns,
               MergeRel(ns, rs, rel_dict.rel_type, rel_dict.source,
                        rel_dict.target),
               Tail(relationships))

\* execute_batch_write of the queries of one file: one transaction, the
\* entity statements first, then the relationship statements
BatchWrite(g, parsed) ==
    LET ns == WriteEntities(g.nodes, parsed.entities)
    IN  [nodes |-> ns,
         rels |-> WriteRelationships(ns, g.rels, parsed.relationships)]

\* a transaction left by an exception whose writes stay in the graph
Rollback_Keep(before, working) == working

\* async with session.begin_transaction() left by an exception before
\* tx.commit(): the transaction is rolled back (neo4j_client.py:145-149)
Rollback(before, working) == before

\* execute_batch_write in which the statement after the first k raises: the
\* entity statements run first, then the relationship statements, each
\* seeing what the ones before it wrote
BatchWriteFailing(g, parsed, k) ==
    LET Prefix(q, n) == SubSeq(q, 1, IF n < Len(q) THEN n ELSE Len(q))
        ne == Len(parsed.entities)
        working ==
          BatchWrite(g, [entities |-> Prefix(parsed.entities, k),
                         relationships |->
                           Prefix(parsed.relationships,
                                  IF k > ne THEN k - ne ELSE 0)])
    IN  Rollback(g, working)

\* get_neo4j_client: the global is assigned before verify_connectivity runs,
\* so it stays set when the verification raises
GetNeo4jClient(client, up) ==
    IF client = "None"
    THEN [client |-> "set", ok |-> up]
    ELSE [client |-> client, ok |-> TRUE]

\* index_file(f) with the store reachable or not: the outcome (ok = FALSE:
\* IndexerError raised), the graph and the global client afterwards
IndexFile(f, g, client, up) ==
    LET parsed == ParseOf(f)
        got == GetNeo4jClient(client, up)
    IN  IF ~parsed.ok
        THEN [ok |-> FALSE, graph |-> g, client |-> client]
        ELSE IF ~got.ok \/ ~up
        THEN [ok |-> FALSE, graph |-> g, client |-> got.client]
        ELSE [ok |-> TRUE, graph |-> BatchWrite(g, parsed),
              client |-> got.client]

(***************************************************************************)
(* Source texts for the extraction tools: module bodies of up to MaxStmts  *)
(* statements out of                                                       *)
(*   1  @dataclass                                                         *)
(*      class Foo(Base, ABC):                                              *)
(*          """doc"""                                                      *)
(*          @staticmethod                                                  *)
(*          def bar(self, x: int): ...                                     *)
(*   2  class Foo(m.B): ...                                                *)
(*   3  @app.get("/")                                                      *)
(*      def f(a, b):                                                       *)
(*          """doc"""                                                      *)
(*          def g(): ...                                                   *)
(*          class Local:                                                   *)
(*              def m(self): ...                                           *)
(*   4  async def f(a, /, b): ...                                          *)
(*   5  import os, sys                                                     *)
(*   6  from os import path                                                *)
(*   7  class Model(ABC):                                                  *)
(*          class Config(Base, m.Mixin, Generic[T]): ...                   *)
(*   8  from . import x, y                                                 *)
(* and a text with a syntax error.                                         *)
(***************************************************************************)
StmtAt(k, l) ==
    CASE k = 1 ->
           ClassDef("Foo", <<Name("Base"), Name("ABC")>>, <<Name("dataclass")>>,
             Str("doc"),
             << FunctionDef("FunctionDef", "bar",
                  Arguments(<<>>, <<Arg("self", <<>>, l + 3),
                                    Arg("x", <<Str("int")>>, l + 3)>>),
                  <<Name("staticmethod")>>, <<>>, <<>>, l + 3) >>, l)
      [] k = 2 ->
           ClassDef("Foo", <<Attribute(<<"m", ".", "B">>)>>, <<>>, <<>>, <<>>, l)
      [] k = 3 ->
           FunctionDef("FunctionDef", "f",
             Arguments(<<>>, <<Arg("a", <<>>, l), Arg("b", <<>>, l)>>),
             <<Call(Attribute(<<"app", ".", "get">>))>>, Str("doc"),
             << FunctionDef("FunctionDef", "g", Arguments(<<>>, <<>>), <<>>,
                            <<>>, <<>>, l + 2),
                ClassDef("Local", <<>>, <<>>, <<>>,
                  << FunctionDef("FunctionDef", "m",
                       Arguments(<<>>, <<Arg("self", <<>>, l + 4)>>), <<>>,
                       <<>>, <<>>, l + 4) >>, l + 3) >>,
             l)
      [] k = 4 ->
           FunctionDef("AsyncFunctionDef", "f",
             Arguments(<<Arg("a", <<>>, l)>>, <<Arg("b", <<>>, l)>>),
             <<>>, <<>>, <<>>, l)
      [] k = 5 -> Import(<<Str("os"), Str("sys")>>, l)
      [] k = 6 -> ImportFrom(Str("os"), <<Str("path")>>, l)
      [] k = 7 ->
           ClassDef("Model", <<Name("ABC")>>, <<>>, <<>>,
             << ClassDef("Config",
                  <<Name("Base"), Attribute(<<"m", ".", "Mixin">>), OtherExpr>>,
                  <<>>, <<>>, <<>>, l + 1) >>, l)
      [] OTHER -> ImportFrom(None, <<Str("x"), Str("y")>>, l)

StmtIds == 1..8

\* each statement starts five lines after the one before it
BodyOf(ks) == [i \in DOMAIN ks |-> StmtAt(ks[i], 5 * i - 4)]

Sources ==
    {Malformed} \cup
    UNION {{Source(<<>>, BodyOf(ks)) : ks \in [1..n -> StmtIds]} :
             n \in 0..MaxStmts}

\* where the text lives in the clone: m.py, or pkg/__init__.py
PartsPool == {<<"m">>, <<"pkg", "__init__">>}

\* the names tempfile.NamedTemporaryFile may give the temporary file
TempNames == {"tmpA", "tmpB"}

TempPath(tmp) == <<"/tmp/", tmp, ".py">>

(***************************************************************************)
(* Query texts.  A Python str is the sequence of its characters; a         *)
(* free-form query is kept as its tokens, its text being their             *)
(* concatenation.                                                          *)
(***************************************************************************)

\* the letters str.upper and str.lower exchange
Alphabet ==
    [lower |->
       <<"a", "b", "c", "d", "e", "f", "g", "h", "i", "j", "k", "l", "m">> \o
       <<"n", "o", "p", "q", "r", "s", "t", "u", "v", "w", "x", "y", "z">>,
     upper |->
       <<"A", "B", "C", "D", "E", "F", "G", "H", "I", "J", "K", "L", "M">> \o
       <<"N", "O", "P", "Q", "R", "S", "T", "U", "V", "W", "X", "Y", "Z">>]

\* str.upper
ToUpper(s) ==
    LET Up(c) ==
          IF \E i \in 1..26 : Alphabet.lower[i] = c
          THEN Alphabet.upper[CHOOSE i \in 1..26 : Alphabet.lower[i] = c]
          ELSE c
    IN  [i \in DOMAIN s |-> Up(s[i])]

\* sub in s
Contains(sub, s) ==
    \E i \in 0..(Len(s) - Len(sub)) : SubSeq(s, i + 1, i + Len(sub)) = sub

\* the Cypher keywords of the model, as the str of each
Word ==
    [MATCH |-> <<"M", "A", "T", "C", "H">>,
     RETURN |-> <<"R", "E", "T", "U", "R", "N">>,
     WHERE |-> <<"W", "H", "E", "R", "E">>,
     CREATE |-> <<"C", "R", "E", "A", "T", "E">>,
     MERGE |-> <<"M", "E", "R", "G", "E">>,
     CONSTRAINT |-> <<"C", "O", "N", "S", "T", "R", "A", "I", "N", "T">>,
     DELETE |-> <<"D", "E", "L", "E", "T", "E">>,
     DETACH |-> <<"D", "E", "T", "A", "C", "H">>,
     REMOVE |-> <<"R", "E", "M", "O", "V", "E">>,
     SET |-> <<"S", "E", "T">>,
     DROP |-> <<"D", "R", "O", "P">>,
     INDEX |-> <<"I", "N", "D", "E", "X">>]

\* CypherQueryBuilder.validate_query(query)
ValidateQuery(query) ==
    LET dangerous_keywords ==
          <<Word.DELETE, Word.DETACH \o <<" ">> \o Word.DELETE, Word.REMOVE,
            Word.SET, Word.CREATE \o <<" ">> \o Word.CONSTRAINT, Word.DROP>>
        query_upper == ToUpper(query)
    IN  \A k \in DOMAIN dangerous_keywords :
            ~Contains(dangerous_keywords[k], query_upper)

\* a token of a free-form query: a Cypher "keyword", a "name" (variable,
\* label, property key) or "other" (blanks, punctuation, literals)
Tok(kind, chars) == [kind |-> kind, text |-> chars]

\* the str of a query given as tokens
RECURSIVE QueryText(_)
QueryText(q) ==
    IF q = <<>> THEN <<>> ELSE Head(q).text \o QueryText(Tail(q))

\* the keywords of a query, upper-cased, in order
RECURSIVE Keywords(_)
Keywords(q) ==
    IF q = <<>> THEN <<>>
    ELSE (IF Head(q).kind = "keyword" THEN <<ToUpper(Head(q).text)>> ELSE <<>>)
         \o Keywords(Tail(q))

\* a keyword as a caller may write it: "upper", "lower" or "mixed" case
Cased(word, style) ==
    LET Low(c) ==
          IF \E i \in 1..26 : Alphabet.upper[i] = c
          THEN Alphabet.lower[CHOOSE i \in 1..26 : Alphabet.upper[i] = c]
          ELSE c
    IN  CASE style = "upper" -> word
          [] style = "lower" -> [i \in DOMAIN word |-> Low(word[i])]
          [] OTHER -> [i \in DOMAIN word |->
                         IF i % 2 = 1 THEN word[i] ELSE Low(word[i])]

\* the variables, labels and property keys of the model's queries
Id ==
    [n |-> <<"n">>,
     c |-> <<"c">>,
     name |-> <<"n", "a", "m", "e">>,
     offset |-> <<"o", "f", "f", "s", "e", "t">>,
     Class |-> <<"C", "l", "a", "s", "s">>,
     Dataset |-> <<"D", "a", "t", "a", "s", "e", "t">>,
     Probe |-> <<"P", "r", "o", "b", "e">>]

\* MATCH (n:label) RETURN n.key
ReadQuery(label, key, style) ==
    <<Tok("keyword", Cased(Word.MATCH, style)), Tok("other", <<" ", "(">>),
      Tok("name", Id.n), Tok("other", <<":">>), Tok("name", label),
      Tok("other", <<")", " ">>), Tok("keyword", Cased(Word.RETURN, style)),
      Tok("other", <<" ">>), Tok("name", Id.n), Tok("other", <<".">>),
      Tok("name", key)>>

\* a query that writes, with the blank put between its two keywords:
\*   "delete"            MATCH (n) DELETE n
\*   "detach_delete"     MATCH (n) DETACH DELETE n
\*   "set"               MATCH (n) SET n.name = 'x'
\*   "remove"            MATCH (n) REMOVE n.name
\*   "drop"              DROP INDEX c
\*   "create_constraint" CREATE CONSTRAINT c ... (the rest is left out)
\*   "create", "merge"   CREATE (n:Probe), MERGE (n:Probe)
WriteQuery(kind, style, blank) ==
    LET K(w) == Tok("keyword", Cased(w, style))
        S(chars) == Tok("other", chars)
        I(chars) == Tok("name", chars)
        MatchAll == <<K(Word.MATCH), S(<<" ", "(">>), I(Id.n), S(<<")", " ">>)>>
        Node == <<S(<<" ", "(">>), I(Id.n), S(<<":">>), I(Id.Probe), S(<<")">>)>>
    IN  CASE kind = "delete" ->
               MatchAll \o <<K(Word.DELETE), S(<<" ">>), I(Id.n)>>
          [] kind = "detach_delete" ->
               MatchAll \o <<K(Word.DETACH), S(blank), K(Word.DELETE),
                             S(<<" ">>), I(Id.n)>>
          [] kind = "set" ->
               MatchAll \o <<K(Word.SET), S(<<" ">>), I(Id.n), S(<<".">>),
                             I(Id.name), S(<<" ", "=", " ", "'", "x", "'">>)>>
          [] kind = "remove" ->
               MatchAll \o <<K(Word.REMOVE), S(<<" ">>), I(Id.n), S(<<".">>),
                             I(Id.name)>>
          [] kind = "drop" ->
               <<K(Word.DROP), S(blank), K(Word.INDEX), S(<<" ">>), I(Id.c)>>
          [] kind = "create_constraint" ->
               <<K(Word.CREATE), S(blank), K(Word.CONSTRAINT), S(<<" ">>),
                 I(Id.c)>>
          [] kind = "create" -> <<K(Word.CREATE)>> \o Node
          [] OTHER -> <<K(Word.MERGE)>> \o Node

\* the free-form queries a caller may give execute_query
FreeQueries ==
    LET CaseStyles == {"upper", "lower", "mixed"}
        Blanks == {<<" ">>, <<" ", " ">>}
        Kinds == {"delete", "detach_delete", "set", "remove", "drop",
                  "create_constraint", "create", "merge"}
    IN  {ReadQuery(l, k, s) :
           l \in {Id.Class, Id.Dataset}, k \in {Id.name, Id.offset},
           s \in CaseStyles}
        \cup {WriteQuery(kind, s, b) :
                kind \in Kinds, s \in CaseStyles, b \in Blanks}

\* session.run(query) in a session opened without an access mode, which
\* the server runs with write access: what the query does to the graph.
\* Schema commands leave nodes and relationships alone; ok = FALSE is an
\* error of the server (DELETE of a node that still has relationships).
RunCypher(g, q) ==
    LET kws == Keywords(q)
        Has(w) == \E i \in DOMAIN kws : kws[i] = w
        Schema == \/ Has(Word.DROP)
                  \/ \E i \in DOMAIN kws :
                        /\ kws[i] = Word.CREATE
                        /\ i < Len(kws)
                        /\ kws[i + 1] \in {Word.CONSTRAINT, Word.INDEX}
    IN  CASE Schema -> [ok |-> TRUE, graph |-> g]
          [] Has(Word.CREATE) ->
               [ok |-> TRUE,
                graph |-> [g EXCEPT !.nodes =
                             Append(@, NewNode("Probe", None, <<>>))]]
          [] Has(Word.MERGE) ->
               [ok |-> TRUE,
                graph |->
                  IF \E i \in DOMAIN g.nodes : g.nodes[i].label = "Probe"
                  THEN g
                  ELSE [g EXCEPT !.nodes =
                          Append(@, NewNode("Probe", None, <<>>))]]
          [] Has(Word.DETACH) /\ Has(Word.DELETE) ->
               [ok |-> TRUE, graph |-> [nodes |-> <<>>, rels |-> EmptyBag]]
          [] Has(Word.DELETE) ->
               IF DOMAIN g.rels = {}
               THEN [ok |-> TRUE, graph |-> [g EXCEPT !.nodes = <<>>]]
               ELSE [ok |-> FALSE, graph |-> g]
          [] Has(Word.SET) ->
               [ok |-> TRUE,
                graph |-> [g EXCEPT !.nodes =
                             [i \in DOMAIN @ |-> [@[i] EXCEPT !.name = <<"x">>]]]]
          [] Has(Word.REMOVE) ->
               [ok |-> TRUE,
                graph |-> [g EXCEPT !.nodes =
                             [i \in DOMAIN @ |-> [@[i] EXCEPT !.name = None]]]]
          [] OTHER -> [ok |-> TRUE, graph |-> g]

(***************************************************************************)
(* CypherQueryBuilder templates.  A query text is the sequence of the      *)
(* fragments the f-string joins: the literal parts, and between them the   *)
(* str of each interpolated value.                                         *)
(***************************************************************************)
EntityTypeValues ==
    {Str("Module"), Str("Class"), Str("Function"), Str("Method"),
     Str("Parameter"), Str("Decorator"), Str("Import"), Str("Docstring"),
     Str("File")}

RelationshipTypeValues ==
    {Str("CONTAINS"), Str("IMPORTS"), Str("INHERITS_FROM"), Str("CALLS"),
     Str("DECORATED_BY"), Str("HAS_PARAMETER"), Str("DOCUMENTED_BY"),
     Str("DEPENDS_ON")}

\* str(n) of an int that is not negative
RECURSIVE StrOfNat(_)
StrOfNat(n) ==
    LET digits == <<"0", "1", "2", "3", "4", "5", "6", "7", "8", "9">>
    IN  IF n < 10 THEN <<digits[n + 1]>>
        ELSE StrOfNat(n \div 10) \o <<digits[(n % 10) + 1]>>

\* f"{max_depth}".  Python checks no annotation, so the value is what the
\* caller handed over: [type |-> "int", value |-> n] or
\* [type |-> "str", value |-> s]
Format(v) ==
    CASE v.type = "int" /\ v.value < 0 -> <<"-">> \o StrOfNat(0 - v.value)
      [] v.type = "int" -> StrOfNat(v.value)
      [] OTHER -> v.value

Q_find_entity_by_name(name, entity_type) ==
    [text |->
       IF entity_type # None
       THEN <<"MATCH (e:">> \o entity_type
            \o <<") WHERE e.name CONTAINS $name RETURN e LIMIT 50">>
       ELSE <<"MATCH (e) WHERE e.name CONTAINS $name RETURN e, labels(e) as entity_type LIMIT 50">>,
     params |-> [name |-> name]]

Q_trace_imports(module_name, max_depth) ==
    [text |-> <<"MATCH path = (m:Module {name: $name})-[:IMPORTS*1..">>
              \o Format(max_depth)
              \o <<"]->(imported) RETURN path LIMIT 50">>,
     params |-> [name |-> module_name]]

Q_find_related(entity_name, relationship_type, direction) ==
    [text |->
       CASE direction = "outgoing" ->
              <<"MATCH (e {name: $name})-[r:">> \o relationship_type
              \o <<"]->(related) RETURN related, r LIMIT 100">>
         [] direction = "incoming" ->
              <<"MATCH (related)-[r:">> \o relationship_type
              \o <<"]->(e {name: $name}) RETURN related, r LIMIT 100">>
         [] OTHER ->
              <<"MATCH (e {name: $name})-[r:">> \o relationship_type
              \o <<"]-(related) RETURN related, r LIMIT 100">>,
     params |-> [name |-> entity_name]]

\* the builders that interpolate nothing: the query text of each, and the
\* key under which its one argument goes into the parameter map
ConstantQueries ==
    [get_dependencies |->
       [text |-> <<"MATCH (e {name: $name})-[r:IMPORTS|DEPENDS_ON|CALLS]->(target) RETURN target, type(r) as relationship_type LIMIT 100">>,
        key |-> "name"],
     get_dependents |->
       [text |-> <<"MATCH (source)-[r:IMPORTS|DEPENDS_ON|CALLS]->(e {name: $name}) RETURN source, type(r) as relationship_type LIMIT 100">>,
        key |-> "name"],
     find_inheritance_hierarchy |->
       [text |-> <<"MATCH path1 = (c:Class {name: $name})-[:INHERITS_FROM*]->(parent) OPTIONAL MATCH path2 = (child)-[:INHERITS_FROM*]->(c) RETURN path1, path2 LIMIT 50">>,
        key |-> "name"],
     find_function_calls |->
       [text |-> <<"MATCH (f {name: $name})-[:CALLS]->(called) RETURN 'calls' as direction, called UNION MATCH (caller)-[:CALLS]->(f {name: $name}) RETURN 'called_by' as direction, caller LIMIT 100">>,
        key |-> "name"],
     find_decorated_entities |->
       [text |-> <<"MATCH (entity)-[:DECORATED_BY]->(d:Decorator) WHERE d.name = $decorator OR d.name CONTAINS $decorator RETURN entity, labels(entity) as entity_type LIMIT 100">>,
        key |-> "decorator"],
     get_module_structure |->
       [text |-> <<"MATCH (m:Module {name: $name}) OPTIONAL MATCH (m)-[:CONTAINS]->(entity) RETURN m, collect(entity) as entities">>,
        key |-> "name"],
     search_by_docstring |->
       [text |-> <<"MATCH (entity) WHERE entity.docstring CONTAINS $term RETURN entity, labels(entity) as entity_type, entity.docstring as docstring LIMIT 50">>,
        key |-> "term"]]

\* CypherQueryBuilder.<builder>(value) for such a builder
Q_constant(builder, value) ==
    [text |-> ConstantQueries[builder].text,
     params |-> [k \in {ConstantQueries[builder].key} |-> value]]

(***************************************************************************)
(* State.                                                                  *)
(***************************************************************************)
VARIABLES
    nodes,          \* the graph: nodes
    rels,           \* the graph: relationships
    storeUp,        \* the Neo4j server is reachable
    neo4j_client,   \* the global _neo4j_client: "None" or "set"
    log,            \* the files the index_file tool has indexed, in order
    prev,           \* the graph before the last successful index_file
    lastOk,         \* the outcome of the last index_file tool call
    text,           \* the source text given to the extraction tools
    parts,          \* the path of that text in the clone
    runs,           \* the extractions made: the tool, and what parse_file returned
    repo,           \* the Python files of the remote repository, in os.walk order
    cloneExists,    \* clone_path exists
    jobs,           \* the IndexingJob object each index_repository call created
    current_job,    \* IndexerTools.current_job: the call whose job it is, 0 = None
    pc,             \* where each index_repository call stands
    frame,          \* the locals of each call: force_reclone, python_files, i
    seen,           \* what happened in each call (observers, not program state)
    given,          \* the arguments a caller of the graph query tools holds
    asked,          \* the last call of a graph query tool, and how it went
    flow,           \* the process_query call in flight: the AgentState and the next node
    memory,         \* the ConversationMemory: max_history and _conversations
    cache,          \* the ResponseCache: _cache, and the clock time.time() reads
    retry           \* the call of an async_retry wrapper in flight

storeVars == <<nodes, rels, storeUp, neo4j_client>>
toolVars == <<log, prev, lastOk>>
parseVars == <<text, parts, runs>>
jobVars == <<repo, cloneExists, jobs, current_job, pc, frame, seen>>
queryVars == <<given, asked>>
appVars == <<flow, memory, cache, retry>>

vars == <<storeVars, toolVars, parseVars, jobVars, queryVars, appVars>>

Calls == 1..MaxCalls

Graph == [nodes |-> nodes, rels |-> rels]

EmptyGraph == [nodes |-> <<>>, rels |-> EmptyBag]

InitStore ==
    /\ nodes = <<>>
    /\ rels = EmptyBag
    /\ storeUp \in BOOLEAN
    /\ neo4j_client = "None"
    /\ log = <<>>
    /\ prev = EmptyGraph
    /\ lastOk = "none"

\* no extraction tool has been given a text
InitNoText ==
    /\ text = Malformed
    /\ parts = <<"m">>
    /\ runs = <<>>

\* the job object before its call creates it
NoJob ==
    [status |-> "none", files_processed |-> 0, total_files |-> 0,
     error |-> FALSE]

NoFrame == [force |-> FALSE, files |-> <<>>, i |-> 0]

NothingSeen ==
    [succeeded |-> 0, failed |-> 0, discovered |-> FALSE,
     discoveryFailed |-> FALSE, gotClient |-> FALSE, storeDown |-> FALSE]

\* no query has been made: n counts the calls of the graph query tools, text
\* and params are what reached execute_read, store_calls the requests sent
\* to the store, status the IndexStatus that get_index_status returned (a
\* current_job of None is written NoJob)
NotAsked ==
    [tool |-> "none", n |-> 0, text |-> <<>>, params |-> <<>>,
     outcome |-> "none", store_calls |-> 0,
     status |-> [is_indexed |-> FALSE, last_indexed |-> None,
                 total_entities |-> 0, total_relationships |-> 0,
                 current_job |-> NoJob]]

\* no graph query tool is called: the caller holds no arguments
InitNoQuery ==
    /\ given = [query |-> <<>>, entity_type |-> None,
                relationship_type |-> None,
                max_depth |-> [type |-> "int", value |-> 3],
                direction |-> "outgoing"]
    /\ asked = NotAsked

\* the AgentState process_query hands to ainvoke, with the node to run next
\* and the nodes run so far; an Optional field holds <<>> for None and
\* <<value>> otherwise
AgentState(node, session_id, query) ==
    [node |-> node, session_id |-> session_id, query |-> query,
     query_intent |-> <<>>, agents_to_invoke |-> <<>>,
     graph_query_response |-> <<>>, code_analyst_response |-> <<>>,
     synthesized_response |-> <<>>, trace |-> <<>>]

\* no query is processed, nothing is remembered or cached, no wrapper runs
InitNoApp ==
    /\ flow = AgentState("idle", "", "")
    /\ memory = [max_history |-> 1, conversations |-> <<>>, added |-> <<>>]
    /\ cache = [now |-> 0, entries |-> <<>>, sets |-> <<>>, got |-> None]
    /\ retry = [pc |-> "idle", max_retries |-> 0, attempt |-> 0,
                current_delay |-> 1, backoff |-> 2,
                last_exception |-> <<>>, attempts |-> <<>>,
                sleeps |-> <<>>, outcome |-> <<>>]

\* IndexerTools.__init__: current_job = None; no call has been made
InitNoJobs ==
    /\ jobs = [c \in Calls |-> NoJob]
    /\ current_job = 0
    /\ pc = [c \in Calls |-> "idle"]
    /\ frame = [c \in Calls |-> NoFrame]
    /\ seen = [c \in Calls |-> NothingSeen]

Init ==
    /\ InitStore
    /\ InitNoApp
    /\ InitNoText
    /\ repo = <<>>
    /\ cloneExists = FALSE
    /\ InitNoJobs
    /\ InitNoQuery

\* the store becomes unreachable, or reachable again
StoreFlips ==
    /\ storeUp' = ~storeUp
    /\ UNCHANGED <<nodes, rels, neo4j_client, toolVars, parseVars, jobVars, queryVars, appVars>>

\* any other caller of get_neo4j_client (gateway/dependencies.py:24)
VerifyNeo4jConnection ==
    /\ neo4j_client = "None"
    /\ neo4j_client' = GetNeo4jClient(neo4j_client, storeUp).client
    /\ UNCHANGED <<nodes, rels, storeUp, toolVars, parseVars, jobVars, queryVars, appVars>>

\* close_neo4j_client
CloseNeo4jClient ==
    /\ neo4j_client = "set"
    /\ neo4j_client' = "None"
    /\ UNCHANGED <<nodes, rels, storeUp, toolVars, parseVars, jobVars, queryVars, appVars>>

\* the index_file tool called on a file of the clone
IndexFileTool(f) ==
    /\ Len(log) < MaxOps
    /\ LET r == IndexFile(f, Graph, neo4j_client, storeUp)
       IN  /\ nodes' = r.graph.nodes
           /\ rels' = r.graph.rels
           /\ neo4j_client' = r.client
           /\ lastOk' = IF r.ok THEN "ok" ELSE "raised"
           /\ log' = IF r.ok THEN Append(log, f) ELSE log
           /\ prev' = IF r.ok THEN Graph ELSE prev
    /\ UNCHANGED <<storeUp, parseVars, jobVars, queryVars, appVars>>

\* the index_file tool on a file that parses, the store failing the
\* statement after the first k of the batch: IndexerError is raised
IndexFileBatchFails(f, k) ==
    /\ ParseOf(f).ok
    /\ k < Len(ParseOf(f).entities) + Len(ParseOf(f).relationships)
    /\ LET got == GetNeo4jClient(neo4j_client, storeUp)
           g == BatchWriteFailing(Graph, ParseOf(f), k)
       IN  /\ got.ok
           /\ neo4j_client' = got.client
           /\ nodes' = g.nodes
           /\ rels' = g.rels
    /\ lastOk' = "write_failed"
    /\ UNCHANGED <<storeUp, log, prev, parseVars, jobVars, queryVars, appVars>>

Next ==
    \/ StoreFlips
    \/ VerifyNeo4jConnection
    \/ CloseNeo4jClient
    \/ \E f \in FileIds : IndexFileTool(f)
    \/ \E f \in FileIds :
          \E k \in 0..(Len(ParseOf(f).entities)
                        + Len(ParseOf(f).relationships) - 1) :
             IndexFileBatchFails(f, k)

Spec == Init /\ [][Next]_vars

(***************************************************************************)
(* The extraction tools of IndexerTools, each on a parser of its own.      *)
(***************************************************************************)
InitParse ==
    /\ InitStore
    /\ InitNoApp
    /\ text \in Sources
    /\ parts \in PartsPool
    /\ runs = <<>>
    /\ repo = <<>>
    /\ cloneExists = FALSE
    /\ InitNoJobs
    /\ InitNoQuery

\* what a tool returns: its dictionary, or the IndexerError it raises
Returned(value) == [raised |-> FALSE, value |-> value]
Raised == [raised |-> TRUE, value |-> [success |-> FALSE]]

\* extract_entities(file_path) on the file of the clone holding the text
ExtractEntities ==
    /\ Len(runs) < MaxRuns
    /\ LET file_path == JoinPath(parts)
           module_path == GetModulePath(parts)
           out == ParseFile(NewParser, file_path, module_path, text)
           entities == out.entities
       IN  runs' = Append(runs,
                     [tool |-> "extract_entities",
                      out |-> out,
                      result |->
                        IF ~out.ok THEN Raised
                        ELSE Returned(
                               [success |-> TRUE,
                                file_path |-> file_path,
                                module_path |-> module_path,
                                entities |->
                                  [i \in DOMAIN entities |->
                                     EntityToDict(entities[i])]])])
    /\ UNCHANGED <<storeVars, toolVars, text, parts, queryVars, jobVars, appVars>>

\* parse_python_ast(code, module_path): the text is written to a temporary
\* file, whose name the tempfile module picks
ParsePythonAst(tmp) ==
    /\ Len(runs) < MaxRuns
    /\ LET temp_file == TempPath(tmp)
           out == ParseFile(NewParser, temp_file, GetModulePath(parts), text)
           entities == out.entities
           relationships == out.relationships
       IN  runs' = Append(runs,
                     [tool |-> "parse_python_ast",
                      out |-> out,
                      result |->
                        IF ~out.ok THEN Raised
                        ELSE Returned(
                               [success |-> TRUE,
                                entities |->
                                  [i \in DOMAIN entities |->
                                     EntityToDict(entities[i])],
                                relationships |->
                                  [i \in DOMAIN relationships |->
                                     RelToDict(relationships[i])]])])
    /\ UNCHANGED <<storeVars, toolVars, text, parts, queryVars, jobVars, appVars>>

NextParse ==
    \/ ExtractEntities
    \/ \E tmp \in TempNames : ParsePythonAst(tmp)

SpecParse == InitParse /\ [][NextParse]_vars

(***************************************************************************)
(* IndexerTools.index_repository.  A call runs between awaits; each action *)
(* below is one stretch of it, and an exception in a stretch runs the      *)
(* handler of tools.py:95-101 in the same action.                          *)
(***************************************************************************)
\* the order in which os.walk meets the files of the corpus:
\* a.py, bad.py, b.py, c.py
WalkOrder == <<1, 4, 2, 3>>

RECURSIVE SubSeqs(_)
\* the subsequences of s
SubSeqs(s) ==
    IF s = <<>> THEN {<<>>}
    ELSE LET rest == SubSeqs(Tail(s))
         IN  rest \cup {<<Head(s)>> \o q : q \in rest}

\* what discover_python_files may return: the files of a repository that
\* holds up to MaxFiles files of the corpus, in os.walk order
Repos == {q \in SubSeqs(WalkOrder) : Len(q) <= MaxFiles}

InitJob ==
    /\ InitStore
    /\ InitNoApp
    /\ InitNoText
    /\ repo \in Repos
    /\ cloneExists \in BOOLEAN
    /\ InitNoJobs
    /\ InitNoQuery

Ended(c) == pc[c] \in {"returned", "raised"}

\* IndexingJob(job_id, status=IN_PROGRESS, started_at) (tools.py:45-49)
NewJob ==
    [status |-> "in_progress", files_processed |-> 0, total_files |-> 0,
     error |-> FALSE]

\* the handler left out: the job keeps its status
JobFailed_Keep(job) == [job EXCEPT !.error = TRUE]

\* except Exception (tools.py:95-99): status = FAILED, error = str(e)
JobFailed(job) == [job EXCEPT !.status = "failed", !.error = TRUE]

\* the exception of a stretch of call c reaches the handler, which marks
\* self.current_job and raises IndexerError to the caller (tools.py:95-101)
Abort(c) ==
    /\ jobs' = [jobs EXCEPT ![current_job] = JobFailed(@)]
    /\ pc' = [pc EXCEPT ![c] = "raised"]

\* a per-file failure that is not caught: it leaves the loop
OnFileError_Propagate(job) == [pc |-> "raised", job |-> JobFailed(job)]

\* a per-file failure that marks the job failed and goes on with the loop
OnFileError_MarkFailed(job) == [pc |-> "loop", job |-> JobFailed(job)]

\* except Exception (tools.py:75-77): log, and continue with the next file
OnFileError(job) == [pc |-> "loop", job |-> job]

\* the call begins: a new job replaces current_job (tools.py:43-51)
StartJob(c, force) ==
    /\ pc[c] = "idle"
    /\ jobs' = [jobs EXCEPT ![c] = NewJob]
    /\ current_job' = c
    /\ pc' = [pc EXCEPT ![c] = "clone"]
    /\ frame' = [frame EXCEPT ![c].force = force]
    /\ seen' = [seen EXCEPT ![c].storeDown = ~storeUp]
    /\ UNCHANGED <<storeVars, toolVars, parseVars, queryVars, repo,
                   cloneExists, appVars>>

\* clone_repository(force) (repository.py:31-69); ok is whether git succeeds
Clone(c, ok) ==
    /\ pc[c] = "clone"
    /\ IF cloneExists /\ ~frame[c].force
       THEN UNCHANGED cloneExists
       ELSE cloneExists' = ok
    /\ IF ok
       THEN /\ pc' = [pc EXCEPT ![c] = "discover"]
            /\ UNCHANGED <<jobs, seen>>
       ELSE /\ Abort(c)
            /\ seen' = [seen EXCEPT ![c].discoveryFailed = TRUE]
    /\ UNCHANGED <<storeVars, toolVars, parseVars, queryVars, repo,
                   current_job, frame, appVars>>

\* discover_python_files (repository.py:71-112), total_files (tools.py:58-59)
Discover(c) ==
    /\ pc[c] = "discover"
    /\ IF cloneExists
       THEN /\ frame' = [frame EXCEPT ![c].files = repo]
            /\ jobs' = [jobs EXCEPT ![current_job].total_files = Len(repo)]
            /\ pc' = [pc EXCEPT ![c] = "client"]
            /\ seen' = [seen EXCEPT ![c].discovered = TRUE]
       ELSE /\ Abort(c)
            /\ seen' = [seen EXCEPT ![c].discoveryFailed = TRUE]
            /\ UNCHANGED frame
    /\ UNCHANGED <<storeVars, toolVars, parseVars, queryVars, repo, cloneExists,
                   current_job, appVars>>

\* neo4j_client = await get_neo4j_client() (tools.py:64)
AcquireClient(c) ==
    /\ pc[c] = "client"
    /\ LET got == GetNeo4jClient(neo4j_client, storeUp)
       IN  /\ neo4j_client' = got.client
           /\ IF got.ok
              THEN /\ pc' = [pc EXCEPT ![c] = "loop"]
                   /\ UNCHANGED jobs
              ELSE Abort(c)
           /\ seen' = [seen EXCEPT ![c].gotClient = got.ok,
                                   ![c].storeDown = @ /\ ~storeUp]
    /\ UNCHANGED <<nodes, rels, storeUp, toolVars, parseVars, queryVars, repo,
                   cloneExists, current_job, frame, appVars>>

\* one iteration of the file loop (tools.py:67-77)
LoopIter(c) ==
    /\ pc[c] = "loop"
    /\ frame[c].i < Len(frame[c].files)
    /\ LET i == frame[c].i
           r == IndexFile(frame[c].files[i + 1], Graph, neo4j_client, storeUp)
           caught == OnFileError(jobs[current_job])
       IN  /\ nodes' = r.graph.nodes
           /\ rels' = r.graph.rels
           /\ neo4j_client' = r.client
           /\ frame' = [frame EXCEPT ![c].i = i + 1]
           /\ IF r.ok
              THEN /\ jobs' = [jobs EXCEPT
                                 ![current_job].files_processed = i + 1]
                   /\ pc' = pc
              ELSE /\ jobs' = [jobs EXCEPT ![current_job] = caught.job]
                   /\ pc' = [pc EXCEPT ![c] = caught.pc]
           /\ seen' = [seen EXCEPT
                         ![c].succeeded = @ + (IF r.ok THEN 1 ELSE 0),
                         ![c].failed = @ + (IF r.ok THEN 0 ELSE 1),
                         ![c].storeDown = @ /\ ~storeUp]
    /\ UNCHANGED <<storeUp, toolVars, parseVars, queryVars, repo, cloneExists,
                   current_job, appVars>>

\* after the loop: status = COMPLETED, return (tools.py:79-93)
Finish(c) ==
    /\ pc[c] = "loop"
    /\ frame[c].i = Len(frame[c].files)
    /\ jobs' = [jobs EXCEPT ![current_job].status = "completed"]
    /\ pc' = [pc EXCEPT ![c] = "returned"]
    /\ UNCHANGED <<storeVars, toolVars, parseVars, queryVars, repo, cloneExists,
                   current_job, frame, seen, appVars>>

\* the clone directory is removed (RepositoryManager.cleanup, or from outside)
Cleanup ==
    /\ cloneExists
    /\ cloneExists' = FALSE
    /\ UNCHANGED <<storeVars, toolVars, parseVars, queryVars, repo, jobs,
                   current_job,
                   pc, frame, seen, appVars>>

\* IndexerTools.get_index_status() (tools.py:244-269), which may run between
\* any two steps of a call: the counts are read from the store, last_indexed
\* is completed_at of current_job (set when the job ended), and current_job
\* is handed out only while its status is IN_PROGRESS
GetIndexStatus ==
    /\ LET got == GetNeo4jClient(neo4j_client, storeUp)
           ok == got.ok /\ storeUp
           total_entities == Len(nodes)
           RECURSIVE Total(_)
           Total(S) == IF S = {} THEN 0
                       ELSE LET r == CHOOSE r \in S : TRUE
                            IN  rels[r] + Total(S \ {r})
           total_relationships == Total(DOMAIN rels)
           job == IF current_job = 0 THEN NoJob ELSE jobs[current_job]
       IN  /\ neo4j_client' = got.client
           /\ asked' =
                [NotAsked EXCEPT
                   !.tool = "get_index_status",
                   !.outcome = IF ok THEN "returned" ELSE "raised",
                   !.status =
                     IF ok
                     THEN [is_indexed |-> total_entities > 0,
                           last_indexed |->
                             IF job.status \in {"completed", "failed"}
                             THEN <<"completed_at">> ELSE None,
                           total_entities |-> total_entities,
                           total_relationships |-> total_relationships,
                           current_job |->
                             IF job.status = "in_progress" THEN job ELSE NoJob]
                     ELSE NotAsked.status]
    /\ UNCHANGED <<nodes, rels, storeUp, toolVars, parseVars, jobVars, given, appVars>>

\* the steps of a call that has begun
CallStep(c) ==
    \/ \E ok \in BOOLEAN : Clone(c, ok)
    \/ Discover(c)
    \/ AcquireClient(c)
    \/ LoopIter(c)
    \/ Finish(c)

NextJob ==
    \/ StoreFlips
    \/ VerifyNeo4jConnection
    \/ CloseNeo4jClient
    \/ Cleanup
    \/ GetIndexStatus
    \/ \E c \in Calls, force \in BOOLEAN :
          (\A d \in Calls : d < c => Ended(d)) /\ StartJob(c, force)
    \/ \E c \in Calls : CallStep(c)

\* the event loop runs a call that has begun until it returns or raises; a
\* call begins when the calls before it have ended
SpecJob == InitJob /\ [][NextJob]_vars /\ \A c \in Calls : WF_vars(CallStep(c))

(***************************************************************************)
(* Overlapping calls of index_repository: trigger_indexing awaits the call *)
(* on the one IndexerTools of get_indexer_tools, so a second request can   *)
(* begin its call at any await of the first.                               *)
(***************************************************************************)
\* one call more than SpecJob runs, so that two can overlap
Overlapping == 1..(MaxCalls + 1)

InitOverlap ==
    /\ InitStore
    /\ InitNoApp
    /\ InitNoText
    /\ repo \in Repos
    /\ cloneExists \in BOOLEAN
    /\ jobs = [c \in Overlapping |-> NoJob]
    /\ current_job = 0
    /\ pc = [c \in Overlapping |-> "idle"]
    /\ frame = [c \in Overlapping |-> NoFrame]
    /\ seen = [c \in Overlapping |-> NothingSeen]
    /\ InitNoQuery

NextOverlap ==
    \/ \E c \in Overlapping, force \in BOOLEAN : StartJob(c, force)
    \/ \E c \in Overlapping : CallStep(c)

SpecOverlap == InitOverlap /\ [][NextOverlap]_vars

(***************************************************************************)
(* GraphQueryTools, on a graph that index_file has filled.                 *)
(***************************************************************************)
\* Neo4jClient.execute_read(query): the store runs the query, whose effect
\* on the graph is given; any failure is raised as Neo4jConnectionError
ExecuteRead(g, up, effect) ==
    IF up /\ effect.ok
    THEN [ok |-> TRUE, graph |-> effect.graph]
    ELSE [ok |-> FALSE, graph |-> g]

\* a tool of GraphQueryTools is called: valid is the check made before
\* get_neo4j_client, args_ok the conversions made after it, built the
\* (query, params) handed to execute_read and effect what the store does
\* with that query
Ask(tool, valid, args_ok, built, effect) ==
    /\ asked.n < MaxAsk
    /\ LET got == GetNeo4jClient(neo4j_client, storeUp)
           reached == valid /\ got.ok /\ args_ok
           res == IF reached
                  THEN ExecuteRead(Graph, storeUp, effect)
                  ELSE [ok |-> FALSE, graph |-> Graph]
       IN  /\ neo4j_client' = IF valid THEN got.client ELSE neo4j_client
           /\ nodes' = res.graph.nodes
           /\ rels' = res.graph.rels
           /\ asked' =
                [tool |-> tool,
                 n |-> asked.n + 1,
                 text |-> IF reached THEN built.text ELSE <<>>,
                 params |-> IF reached THEN built.params ELSE <<>>,
                 outcome |-> IF res.ok THEN "returned" ELSE "raised",
                 store_calls |->
                   (IF valid /\ neo4j_client = "None" THEN 1 ELSE 0)
                   + (IF reached THEN 1 ELSE 0),
                 status |-> NotAsked.status]
    /\ UNCHANGED <<storeUp, toolVars, parseVars, jobVars, given, appVars>>

\* GraphQueryTools.execute_query(cypher_query)
ExecuteQuery ==
    LET cypher_query == QueryText(given.query)
    IN  given.query # <<>> /\
        Ask("execute_query", ValidateQuery(cypher_query), TRUE,
            [text |-> cypher_query, params |-> <<>>],
            RunCypher(Graph, given.query))

\* the name, search term or decorator a caller may pass
Names == {Str("Foo"), Str("x' OR 1=1 //")}

\* GraphQueryTools.find_entity(name, entity_type); a template query only
\* reads, so the store leaves the graph as it is
FindEntity(name) ==
    Ask("find_entity", TRUE,
        ~Truthy(given.entity_type) \/ given.entity_type \in EntityTypeValues,
        Q_find_entity_by_name(
            name, IF Truthy(given.entity_type) THEN given.entity_type ELSE None),
        [ok |-> TRUE, graph |-> Graph])

\* GraphQueryTools.get_dependencies(entity_name)
GetDependencies(name) ==
    Ask("get_dependencies", TRUE, TRUE, Q_constant("get_dependencies", name),
        [ok |-> TRUE, graph |-> Graph])

\* GraphQueryTools.get_dependents(entity_name)
GetDependents(name) ==
    Ask("get_dependents", TRUE, TRUE, Q_constant("get_dependents", name),
        [ok |-> TRUE, graph |-> Graph])

\* GraphQueryTools.trace_imports(module_name, max_depth)
TraceImports(name) ==
    Ask("trace_imports", TRUE, TRUE, Q_trace_imports(name, given.max_depth),
        [ok |-> TRUE, graph |-> Graph])

\* GraphQueryTools.find_related(entity_name, relationship_type, direction)
FindRelated(name) ==
    Ask("find_related", TRUE,
        given.relationship_type \in RelationshipTypeValues,
        Q_find_related(name, given.relationship_type, given.direction),
        [ok |-> TRUE, graph |-> Graph])

\* GraphQueryTools.get_inheritance_hierarchy(class_name)
GetInheritanceHierarchy(name) ==
    Ask("get_inheritance_hierarchy", TRUE, TRUE,
        Q_constant("find_inheritance_hierarchy", name),
        [ok |-> TRUE, graph |-> Graph])

\* a caller of CypherQueryBuilder builds the query of a template that no
\* tool of GraphQueryTools uses
Build(template, name) ==
    /\ asked.n < MaxAsk
    /\ LET built == Q_constant(template, name)
       IN  asked' = [tool |-> template, n |-> asked.n + 1,
                     text |-> built.text, params |-> built.params,
                     outcome |-> "built", store_calls |-> 0,
                     status |-> NotAsked.status]
    /\ UNCHANGED <<storeVars, toolVars, parseVars, jobVars, given, appVars>>

\* a graph (empty, or b.py and a.py indexed) and a caller, before any tool
\* is called; the caller holds a free-form query, or the structural
\* arguments of the templates
InitQuery ==
    /\ \E g \in {EmptyGraph,
                 BatchWrite(BatchWrite(EmptyGraph, ParseOf(2)), ParseOf(1))} :
          nodes = g.nodes /\ rels = g.rels
    /\ storeUp \in BOOLEAN
    /\ neo4j_client = "None"
    /\ log = <<>>
    /\ prev = EmptyGraph
    /\ lastOk = "none"
    /\ InitNoApp
    /\ InitNoText
    /\ repo = <<>>
    /\ cloneExists = FALSE
    /\ InitNoJobs
    /\ given \in
         [query : FreeQueries, entity_type : {None},
          relationship_type : {None},
          max_depth : {[type |-> "int", value |-> 3]},
          direction : {"outgoing"}]
         \cup
         [query : {<<>>},
          entity_type : {None, Str("Class"), Str("Klass")},
          relationship_type : {Str("IMPORTS"), Str("IMPORTZ")},
          max_depth : {[type |-> "int", value |-> 1],
                       [type |-> "int", value |-> 3],
                       [type |-> "str", value |-> <<>>]},
          direction : {"outgoing", "incoming", "both"}]
    /\ asked = NotAsked

NextQuery ==
    \/ StoreFlips
    \/ VerifyNeo4jConnection
    \/ CloseNeo4jClient
    \/ ExecuteQuery
    \/ \E name \in Names : FindEntity(name)
    \/ \E name \in Names : GetDependencies(name)
    \/ \E name \in Names : GetDependents(name)
    \/ \E name \in Names : TraceImports(name)
    \/ \E name \in Names : FindRelated(name)
    \/ \E name \in Names : GetInheritanceHierarchy(name)
    \/ \E name \in Names,
          template \in {"find_function_calls", "find_decorated_entities",
                        "get_module_structure", "search_by_docstring"} :
          Build(template, name)

SpecQuery == InitQuery /\ [][NextQuery]_vars

(***************************************************************************)
(* Graph content, apart from node identities and creation order.           *)
(***************************************************************************)
NodeKey(n) == <<n.label, n.name>>

Content(g) ==
    [nodes |-> {g.nodes[i] : i \in DOMAIN g.nodes},
     rels |-> {[type |-> r.type, s |-> NodeKey(g.nodes[r.s]),
                t |-> NodeKey(g.nodes[r.t])] : r \in DOMAIN g.rels}]

\* no node and no relationship exists twice
NoDuplicates ==
    /\ \A i, j \in DOMAIN nodes :
          i # j => NodeKey(nodes[i]) # NodeKey(nodes[j])
    /\ \A r \in DOMAIN rels : rels[r] = 1

\* the last two successful index_file calls were on the same file
LastRepeat == Len(log) >= 2 /\ log[Len(log)] = log[Len(log) - 1]

\* C1: indexing the same unchanged file a second time in succession leaves
\* the nodes and the relationships of the store exactly as the first run
\* left them, and nothing in the store is duplicated.
C1_Idempotence ==
    LastRepeat => (nodes = prev.nodes /\ rels = prev.rels /\ NoDuplicates)

\* a file whose relationships reach the store has been indexed twice in a row
C1_Witness == LastRepeat /\ log[Len(log)] = 1 /\ DOMAIN rels # {}

\* index the files of seq in order, the store being reachable
RECURSIVE Replay(_, _)
Replay(g, seq) ==
    IF seq = <<>> THEN g
    ELSE Replay(BatchWrite(g, ParseOf(Head(seq))), Tail(seq))

RECURSIVE Ascending(_)
Ascending(S) ==
    IF S = {} THEN <<>>
    ELSE LET m == CHOOSE a \in S : \A b \in S : a <= b
         IN  <<m>> \o Ascending(S \ {m})

\* each file of the log was indexed once
IndexedOnce == Cardinality(SeqRange(log)) = Len(log)

\* C2: whatever the order in which a set of files was indexed, the content of
\* the graph is the one indexing them in ascending order gives.
C2_OrderIndependence ==
    IndexedOnce =>
        Content(Graph) = Content(Replay(EmptyGraph, Ascending(SeqRange(log))))

\* the relationship r of an extraction is in the store
RelPresent(r) ==
    \E e \in DOMAIN rels :
        /\ e.type = r.rel_type
        /\ nodes[e.s].name = r.source
        /\ nodes[e.t].name = r.target

\* C3: after a successful index_file, every relationship extracted from the
\* file is in the store, whatever its target.
C3_RelationshipsPersisted ==
    (lastOk = "ok" /\ log # <<>>) =>
        \A r \in SeqRange(ParseOf(log[Len(log)]).relationships) : RelPresent(r)

\* the uniqueness key of an entity (database/schema.py:36-52); the id for the
\* types the schema gives no key
UniquenessKey(e) ==
    IF e.entity_type \in {"Class", "Function"}
    THEN <<e.properties.name, e.properties.module_path>>
    ELSE IF e.entity_type = "Module" THEN e.properties.path
    ELSE e.name

\* the nodes the upsert of entity e writes to
NodesOf(e) ==
    {i \in DOMAIN nodes :
        /\ nodes[i].label = e.entity_type
        /\ nodes[i].name = EntityToDict(e).name}

\* C4: two entities of one type with different uniqueness keys, of files
\* that were indexed, are two nodes of the store.
C4_StoreUniqueness ==
    \A f1, f2 \in SeqRange(log) :
      \A e1 \in SeqRange(ParseOf(f1).entities) :
        \A e2 \in SeqRange(ParseOf(f2).entities) :
          (e1.entity_type = e2.entity_type
             /\ UniquenessKey(e1) # UniquenessKey(e2))
          => NodesOf(e1) \cap NodesOf(e2) = {}

(***************************************************************************)
(* Extraction.                                                             *)
(***************************************************************************)
\* C5: in the output of an extraction, two entities of one type have
\* different ids (each entity the parser emits is one construct of the
\* source).
C5_IdentityInjective ==
    \A n \in DOMAIN runs :
      LET entities == runs[n].out.entities
      IN  \A i, j \in DOMAIN entities :
            (i # j /\ entities[i].entity_type = entities[j].entity_type)
            => entities[i].name # entities[j].name

\* C6: two extractions of the same source text under the same module path,
\* by the same tool, return the same entity list and the same relationship
\* list: the same ids and attributes in the same order.
C6_Determinism ==
    \A m, n \in DOMAIN runs :
        runs[m].tool = runs[n].tool => runs[m].result = runs[n].result

(***************************************************************************)
(* Indexing jobs.                                                          *)
(***************************************************************************)
\* C7: a job that has finished reports as succeeded the number of files
\* whose index_file succeeded, and as failed the number of files that raised.
C7_FaultIsolationCounts ==
    \A c \in Calls :
        pc[c] = "returned" =>
            /\ jobs[c].files_processed = seen[c].succeeded
            /\ jobs[c].total_files - jobs[c].files_processed = seen[c].failed

\* the call has ended with every discovered file attempted and the job
\* completed
CompletedAll(c) ==
    /\ pc[c] = "returned"
    /\ jobs[c].status = "completed"
    /\ frame[c].i = Len(frame[c].files)
    /\ seen[c].succeeded + seen[c].failed = Len(frame[c].files)

\* C8 as claimed: once discovery has succeeded, the call ends with every
\* discovered file attempted and the job completed.
C8_CompletedOnceDiscovered ==
    \A c \in Calls : (seen[c].discovered /\ Ended(c)) => CompletedAll(c)

\* C8, amended: once discovery has succeeded and the store client has been
\* obtained, no failure of a file ends the call: a call that has ended went
\* through every discovered file and its job is completed; a call in the
\* loop has a file left to handle or the job left to complete, and each of
\* its steps handles the next file or completes the job.
C8_FailureIsolation ==
    /\ [](\A c \in Calls : (seen[c].gotClient /\ Ended(c)) => CompletedAll(c))
    /\ [](\A c \in Calls : pc[c] = "loop" => frame[c].i <= Len(frame[c].files))
    /\ [][\A c \in Calls :
            (pc[c] = "loop" /\ pc'[c] # "loop") => CompletedAll(c)']_vars
    /\ [][\A c \in Calls :
            (pc[c] = "loop" /\ pc'[c] = "loop" /\ frame'[c] # frame[c])
            => frame'[c].i = frame[c].i + 1]_vars

\* a job has completed although each of its files failed
C8_Witness ==
    \E c \in Calls :
        /\ CompletedAll(c)
        /\ Len(frame[c].files) >= 2
        /\ seen[c].failed = Len(frame[c].files)

\* C9: when cloning or discovery fails, the call raises, its job is failed
\* with zero files processed, and no file was given to index_file.
C9_DiscoveryFailureAborts ==
    \A c \in Calls :
        seen[c].discoveryFailed =>
            /\ pc[c] = "raised"
            /\ jobs[c].status = "failed"
            /\ jobs[c].error
            /\ jobs[c].files_processed = 0
            /\ frame[c].i = 0
            /\ seen[c].succeeded + seen[c].failed = 0

\* discovery failed on a clone directory that was removed after cloning
C9_Witness ==
    \E c \in Calls :
        /\ seen[c].discoveryFailed
        /\ jobs[c].status = "failed"
        /\ ~cloneExists
        /\ ~frame[c].force

\* C10: a job that found the store unreachable when it started, and for as
\* long as it ran, ends failed with zero files processed.
C10_StoreUnreachableFails ==
    \A c \in Calls :
        (Ended(c) /\ seen[c].storeDown) =>
            (jobs[c].status = "failed" /\ jobs[c].files_processed = 0)

\* the moves of IndexJobStatus along pending -> running -> completed or
\* failed; "none" is a job that was not created yet
StatusMoves ==
    {<<"none", "pending">>, <<"none", "in_progress">>,
     <<"pending", "in_progress">>,
     <<"in_progress", "completed">>, <<"in_progress", "failed">>}

C12_AllOrNothing ==
    [][lastOk' \in {"raised", "write_failed"}
       => (nodes' = nodes /\ rels' = rels)]_vars

\* a batch write failed on a graph that already held files
C12_Witness == lastOk = "write_failed" /\ Len(log) >= 2 /\ DOMAIN rels # {}

(***************************************************************************)
(* Free-form queries.                                                      *)
(***************************************************************************)
\* the query has a mutation keyword: delete, remove, set, drop, or create
\* followed by constraint, in any letter case
HasMutationKeyword(q) ==
    LET kws == Keywords(q)
    IN  \E i \in DOMAIN kws :
          \/ kws[i] \in {Word.DELETE, Word.REMOVE, Word.SET, Word.DROP}
          \/ kws[i] = Word.CREATE /\ i < Len(kws) /\ kws[i + 1] = Word.CONSTRAINT

\* C13: execute_query on a query that has a mutation keyword raises without
\* sending anything to the store, and leaves the graph and the client as
\* they were.
C13_QuerySafety ==
    [][(asked'.n # asked.n /\ asked'.tool = "execute_query"
          /\ HasMutationKeyword(given.query))
       => (/\ asked'.outcome = "raised"
           /\ asked'.store_calls = 0
           /\ UNCHANGED <<nodes, rels, neo4j_client>>)]_vars

\* C14: no call of a read-path operation (a template tool, or execute_query
\* on a query that validate_query accepted) changes the nodes, their
\* properties or the relationships of the graph.
C14_ReadsNeverMutate ==
    [][asked'.n # asked.n => (nodes' = nodes /\ rels' = rels)]_vars

\* the query is made of read clauses only
ReadOnlyQuery(q) ==
    LET kws == Keywords(q)
    IN  q # <<>> /\ \A i \in DOMAIN kws : kws[i] \in {Word.MATCH, Word.WHERE, Word.RETURN}

\* C16: execute_query on a query made of read clauses only is not rejected
\* by validate_query, whatever labels and property keys the query names: the
\* call goes on to the store.
C16_ReadOnlyAccepted ==
    (asked.tool = "execute_query" /\ ReadOnlyQuery(given.query))
    => asked.store_calls > 0

(***************************************************************************)
(* Query templates.                                                        *)
(***************************************************************************)
\* the depth bounds a validation of max_depth could let through
DepthBounds == {[type |-> "int", value |-> n] : n \in 1..9}

\* the texts of a template whose interpolated tokens are an entity type, a
\* relationship type or an integer depth bound
ValidatedTexts(tool) ==
    LET name == Str("Foo")
    IN  CASE tool = "find_entity" ->
               {Q_find_entity_by_name(name, e).text :
                  e \in EntityTypeValues \cup {None}}
          [] tool = "trace_imports" ->
               {Q_trace_imports(name, d).text : d \in DepthBounds}
          [] tool = "find_related" ->
               {Q_find_related(name, r, dir).text :
                  r \in RelationshipTypeValues,
                  dir \in {"outgoing", "incoming", "both"}}
          [] tool = "get_inheritance_hierarchy" ->
               {ConstantQueries.find_inheritance_hierarchy.text}
          [] OTHER -> {ConstantQueries[tool].text}

\* the last call was a template whose query was built
TemplateBuilt ==
    asked.tool \notin {"none", "execute_query"} /\ asked.text # <<>>

\* C15: the text of a template query never holds the name given (it is in
\* the parameter map only), two calls of a template that differ in the name
\* build the same text, and the tokens interpolated into the text are an
\* entity type, a relationship type or an integer depth bound.
C15_ParameterBinding ==
    /\ [](TemplateBuilt =>
            /\ \A i \in DOMAIN asked.text : <<asked.text[i]>> \notin Names
            /\ \E k \in DOMAIN asked.params : asked.params[k] \in Names
            /\ asked.text \in ValidatedTexts(asked.tool))
    /\ [][(TemplateBuilt /\ TemplateBuilt' /\ asked'.tool = asked.tool)
          => asked'.text = asked.text]_vars

(***************************************************************************)
(* Job status.                                                             *)
(***************************************************************************)
\* C17: a status query answered after a job ended reports that job, with
\* the number of files that succeeded and the number that failed.
C17_StatusReporting ==
    [][(/\ asked' # asked
        /\ asked'.tool = "get_index_status"
        /\ asked'.outcome = "returned"
        /\ current_job # 0
        /\ Ended(current_job))
       => (/\ asked'.status.current_job # NoJob
           /\ asked'.status.current_job.files_processed
                = seen[current_job].succeeded
           /\ asked'.status.current_job.total_files
                - asked'.status.current_job.files_processed
                = seen[current_job].failed)]_vars

(***************************************************************************)
(* Extraction results.                                                     *)
(***************************************************************************)
\* the entities of a type in an extraction result, by their place
OfType(out, entity_type) ==
    {i \in DOMAIN out.entities : out.entities[i].entity_type = entity_type}

\* the CONTAINS relationships of a result that point at a name
ContainsOf(out, name) ==
    {k \in DOMAIN out.relationships :
       /\ out.relationships[k].rel_type = "CONTAINS"
       /\ out.relationships[k].target = name}

\* the statements at the top level of the text that are of these kinds
TopLevel(kinds) == {i \in DOMAIN text.body : text.body[i].kind \in kinds}

\* C18: an extraction of a text with N top-level classes, M top-level
\* functions and K import statements returns exactly N Class entities,
\* exactly M Function entities and an Import entity for every import
\* statement, and each of these entities is the target of a CONTAINS
\* relationship from the module.
C18_Completeness ==
    \A n \in DOMAIN runs :
      LET out == runs[n].out
          module_path == GetModulePath(parts)
      IN  out.ok =>
            /\ Cardinality(OfType(out, "Class"))
                 = Cardinality(TopLevel({"ClassDef"}))
            /\ Cardinality(OfType(out, "Function"))
                 = Cardinality(TopLevel({"FunctionDef", "AsyncFunctionDef"}))
            /\ \A s \in TopLevel({"Import", "ImportFrom"}) :
                 \E i \in OfType(out, "Import") :
                    out.entities[i].line_number = text.body[s].lineno
            /\ \A i \in OfType(out, "Class") \cup OfType(out, "Function")
                        \cup OfType(out, "Import") :
                 \E k \in ContainsOf(out, out.entities[i].name) :
                    out.relationships[k].source = module_path

\* C19: in every extraction result no Function entity comes from the
\* definition (the line) a Method entity comes from, and every Class,
\* Function and Method entity is the target of exactly one CONTAINS
\* relationship.
C19_ContainmentExclusive ==
    \A n \in DOMAIN runs :
      LET out == runs[n].out
      IN  out.ok =>
            /\ \A i \in OfType(out, "Method"), j \in OfType(out, "Function") :
                 out.entities[i].line_number # out.entities[j].line_number
            /\ \A i \in OfType(out, "Class") \cup OfType(out, "Function")
                        \cup OfType(out, "Method") :
                 Cardinality(ContainsOf(out, out.entities[i].name)) = 1

\* the statements of a body and of the bodies nested in it
RECURSIVE Nodes(_)
Nodes(body) ==
    IF body = <<>> THEN {}
    ELSE {Head(body)} \cup Nodes(Head(body).body) \cup Nodes(Tail(body))

\* the function definitions of the text that extraction emits, each with
\* the id of its entity: the functions at the top level, and the functions
\* in the body of a class
EmittedDefs ==
    LET module_path == GetModulePath(parts)
    IN  {[node |-> f, full_name |-> Dot(module_path, f.name)] :
           f \in {g \in SeqRange(text.body) : IsFunctionDef(g)}}
        \cup
        UNION {{[node |-> f,
                 full_name |-> Dot(Dot(module_path, c.name), f.name)] :
                  f \in {g \in SeqRange(c.body) : IsFunctionDef(g)}} :
                 c \in {x \in Nodes(text.body) : x.kind = "ClassDef"}}

\* C20: for every extracted function or method with declared positional
\* parameters p0..p(n-1), the result holds exactly n Parameter entities and
\* n HAS_PARAMETER relationships for it, the entity of p_i has position i,
\* and its signature lists the names p0..p(n-1) in that order.
C20_ParameterOrdering ==
    \A r \in DOMAIN runs :
      LET out == runs[r].out
      IN  out.ok =>
          \A d \in EmittedDefs :
            LET declared == d.node.args.posonlyargs \o d.node.args.args
                n == Len(declared)
                prefix == d.full_name \o <<".", "param", ".">>
            IN  /\ Cardinality(
                     {i \in OfType(out, "Parameter") :
                        /\ Len(out.entities[i].name) > Len(prefix)
                        /\ SubSeq(out.entities[i].name, 1, Len(prefix))
                             = prefix}) = n
                /\ Cardinality(
                     {k \in DOMAIN out.relationships :
                        /\ out.relationships[k].rel_type = "HAS_PARAMETER"
                        /\ out.relationships[k].source = d.full_name}) = n
                /\ \A i \in 1..n :
                     \E j \in OfType(out, "Parameter") :
                        /\ out.entities[j].name = prefix \o declared[i].arg
                        /\ out.entities[j].properties.position = i - 1
                /\ \E j \in OfType(out, "Function") \cup OfType(out, "Method") :
                     /\ out.entities[j].name = d.full_name
                     /\ out.entities[j].line_number = d.node.lineno
                     /\ out.entities[j].properties.signature
                          = d.node.name \o <<"(">> \o JoinArgs(declared)
                            \o <<")">>

(***************************************************************************)
(* Inheritance.                                                            *)
(***************************************************************************)
\* the class definitions of the text, at any depth
ClassDefs == {c \in Nodes(text.body) : c.kind = "ClassDef"}

\* the bases of a class that are named (a name or a dotted name) and are
\* not the sentinel ABC, by their place
NamedBases(c) ==
    {i \in DOMAIN c.bases :
       /\ c.bases[i].kind \in {"Name", "Attribute"}
       /\ c.bases[i].text # Str("ABC")}

\* C21: the INHERITS_FROM relationships of a class id are one per named base,
\* other than the sentinel ABC, of the class definitions with that id, each
\* to the name of that base (none for a class whose only base is ABC); the
\* Class entity of a definition has is_abstract = TRUE exactly when ABC is
\* among its bases.
C21_Inheritance ==
    \A r \in DOMAIN runs :
      LET out == runs[r].out
          module_path == GetModulePath(parts)
      IN  out.ok =>
          \A c \in ClassDefs :
            LET id == Dot(module_path, c.name)
                same == {d \in ClassDefs : d.name = c.name}
                edges == {k \in DOMAIN out.relationships :
                            /\ out.relationships[k].rel_type = "INHERITS_FROM"
                            /\ out.relationships[k].source = id}
            IN  /\ Cardinality(edges)
                     = Cardinality(UNION {{<<d.lineno, i>> : i \in NamedBases(d)} :
                                            d \in same})
                /\ \A i \in NamedBases(c) :
                     \E k \in edges :
                        out.relationships[k].target = c.bases[i].text
                /\ \E j \in OfType(out, "Class") :
                     /\ out.entities[j].name = id
                     /\ out.entities[j].line_number = c.lineno
                     /\ out.entities[j].properties.is_abstract
                          = (\E i \in DOMAIN c.bases : c.bases[i] = Name("ABC"))

\* an extraction of a text with a class whose only base is ABC and a class
\* with two named bases
C21_Witness ==
    /\ Len(runs) > 0
    /\ runs[1].out.ok
    /\ \E c \in ClassDefs : c.bases = <<Name("ABC")>>
    /\ \E c \in ClassDefs : Cardinality(NamedBases(c)) = 2

(***************************************************************************)
(* Relationship ends.                                                      *)
(***************************************************************************)
\* C23: in every extraction result, the source and the target of every
\* CONTAINS, HAS_PARAMETER, DECORATED_BY and DOCUMENTED_BY relationship are
\* ids of entities of that result.
C23_ResolvableEdges ==
    \A r \in DOMAIN runs :
      LET out == runs[r].out
          ids == {out.entities[i].name : i \in DOMAIN out.entities}
      IN  out.ok =>
          \A k \in DOMAIN out.relationships :
            out.relationships[k].rel_type
              \in {"CONTAINS", "HAS_PARAMETER", "DECORATED_BY", "DOCUMENTED_BY"}
            => /\ out.relationships[k].source \in ids
               /\ out.relationships[k].target \in ids

(***************************************************************************)
(* Imports.                                                                *)
(***************************************************************************)
\* the import statements of the text, at any depth
ImportStmts(kind) == {s \in Nodes(text.body) : s.kind = kind}

\* C24: a plain import statement gives one Import entity per imported name
\* and an IMPORTS relationship from the module to each name; a from-style
\* import statement gives exactly one Import entity, keyed by the source
\* module, with the imported symbols and is_from_import = TRUE, and one
\* IMPORTS relationship from the module to the source module; the result
\* holds no other IMPORTS relationship.
C24_Imports ==
    \A r \in DOMAIN runs :
      LET out == runs[r].out
          module_path == GetModulePath(parts)
          At(s) == {i \in OfType(out, "Import") :
                      out.entities[i].line_number = s.lineno}
          imports == {k \in DOMAIN out.relationships :
                        out.relationships[k].rel_type = "IMPORTS"}
      IN  out.ok =>
          /\ \A s \in ImportStmts("Import") :
               /\ Cardinality(At(s)) = Len(s.names)
               /\ \A n \in DOMAIN s.names :
                    /\ \E i \in At(s) :
                         /\ out.entities[i].name
                              = module_path \o <<".", "import", ".">> \o s.names[n]
                         /\ ~out.entities[i].properties.is_from_import
                    /\ \E k \in imports :
                         /\ out.relationships[k].source = module_path
                         /\ out.relationships[k].target = s.names[n]
          /\ \A s \in ImportStmts("ImportFrom") :
               /\ Cardinality(At(s)) = 1
               /\ \A i \in At(s) :
                    /\ out.entities[i].properties.imported_names = s.names
                    /\ out.entities[i].properties.is_from_import
                    /\ s.module # None =>
                         /\ out.entities[i].name
                              = module_path \o <<".", "import", ".">> \o s.module
                         /\ \E k \in imports :
                              /\ out.relationships[k].source = module_path
                              /\ out.relationships[k].target = s.module
          /\ Cardinality(imports)
               = Cardinality(UNION {{<<s.lineno, n>> : n \in DOMAIN s.names} :
                                      s \in ImportStmts("Import")})
                 + Cardinality(ImportStmts("ImportFrom"))

(***************************************************************************)
(* Scope.                                                                  *)
(***************************************************************************)
\* the statements nested, at any depth, in the body of a function of the
\* text
InFunctions ==
    UNION {Nodes(f.body) : f \in {g \in Nodes(text.body) : IsFunctionDef(g)}}

\* C25: no Class, Function or Method entity of an extraction result comes
\* from a definition (a line) nested in the body of a function.
C25_ScopeBoundary ==
    \A r \in DOMAIN runs :
      LET out == runs[r].out
      IN  out.ok =>
          \A i \in OfType(out, "Class") \cup OfType(out, "Function")
                   \cup OfType(out, "Method") :
            \A x \in InFunctions : out.entities[i].line_number # x.lineno

(***************************************************************************)
(* Overlapping jobs.                                                       *)
(***************************************************************************)
\* C22: when calls of index_repository overlap, a step of a call changes no
\* job but the one that call created, a job is not completed while files
\* its call discovered are unattempted, and the files_processed of a job
\* in progress does not decrease.
C22_ConcurrentJobs ==
    /\ [][\A c, d \in Overlapping :
            (d # c /\ (pc'[c] # pc[c] \/ frame'[c] # frame[c])
               /\ pc[c] # "idle")
            => jobs'[d] = jobs[d]]_vars
    /\ [](\A c \in Overlapping :
            (jobs[c].status = "completed" /\ seen[c].discovered)
            => frame[c].i = Len(frame[c].files))
    /\ [][\A c \in Overlapping :
            (jobs[c].status = "in_progress" /\ jobs'[c].status = "in_progress")
            => jobs'[c].files_processed >= jobs[c].files_processed]_vars

(***************************************************************************)
(* The conversation memory (memory/conversation.py).  _conversations is a  *)
(* defaultdict(list): every session has a history, empty until a message   *)
(* is added.  memory.added observes every message ever added to a session. *)
(***************************************************************************)
\* the most messages added to one session
MaxAdds == 3
\* the largest max_conversation_history configured (settings: gt = 0)
MaxHistory == 2

Sessions == {"s1", "s2"}

\* Message(role, content); the timestamp is not modelled
Message(role, content) == [role |-> role, content |-> content]

AddMessage_NoTrim(conversations, max_history, session_id, message) ==
    [conversations EXCEPT ![session_id] = Append(@, message)]

AddMessage(conversations, max_history, session_id, message) ==
    LET appended == Append(conversations[session_id], message)
    IN  [conversations EXCEPT ![session_id] =
            IF Len(appended) > max_history THEN Tail(appended) ELSE appended]

AddUserMessage_AsAssistant(conversations, max_history, session_id, content) ==
    AddMessage(conversations, max_history, session_id,
               Message("assistant", content))

AddUserMessage(conversations, max_history, session_id, content) ==
    AddMessage(conversations, max_history, session_id, Message("user", content))

AddAssistantMessage(conversations, max_history, session_id, content) ==
    AddMessage(conversations, max_history, session_id,
               Message("assistant", content))

\* messages[-last_n:]: the whole list when last_n is 0 or exceeds its length
GetHistory(conversations, session_id, last_n) ==
    LET messages == conversations[session_id]
    IN  IF last_n.type = "int"
        THEN IF last_n.value = 0 \/ last_n.value >= Len(messages)
             THEN messages
             ELSE SubSeq(messages, Len(messages) - last_n.value + 1,
                         Len(messages))
        ELSE messages

(***************************************************************************)
(* The orchestrator workflow (agents/orchestrator/graph.py, tools.py).     *)
(***************************************************************************)
\* what analyze_query can return: the model's answer, or the fallback
Intents ==
    [query_type : {"simple", "medium", "complex"},
     entities : {<<>>, <<"FastAPI">>},
     requires_code_analysis : BOOLEAN,
     requires_graph_query : BOOLEAN]

RouteToAgents(query_intent) ==
    LET a1 == IF query_intent.requires_graph_query
                 \/ query_intent.entities # <<>>
              THEN <<"graph_query">> ELSE <<>>
        a2 == IF query_intent.requires_code_analysis
              THEN Append(a1, "code_analyst") ELSE a1
        a3 == IF query_intent.query_type = "complex"
              THEN LET b == IF \E k \in DOMAIN a2 : a2[k] = "graph_query"
                            THEN a2 ELSE Append(a2, "graph_query")
                   IN  IF \E k \in DOMAIN b : b[k] = "code_analyst"
                       THEN b ELSE Append(b, "code_analyst")
              ELSE a2
    IN  IF a3 = <<>> THEN <<"graph_query">> ELSE a3

ShouldCallAgents_Both(agents) == "both"

ShouldCallAgents(agents) ==
    LET has_graph_query == \E k \in DOMAIN agents : agents[k] = "graph_query"
        has_code_analyst == \E k \in DOMAIN agents : agents[k] = "code_analyst"
    IN  IF agents = <<>> THEN "synthesize"
        ELSE IF has_graph_query /\ has_code_analyst THEN "both"
        ELSE IF has_graph_query THEN "graph_query"
        ELSE IF has_code_analyst THEN "code_analyst"
        ELSE "synthesize"

AfterGraphQuery(agents) ==
    IF \E k \in DOMAIN agents : agents[k] = "code_analyst"
    THEN "code_analyst" ELSE "synthesize"

\* the edges _build_graph adds
BuildGraph ==
    [entry_point |-> "analyze_query",
     analyze_query |-> "route_agents",
     route_agents |-> [graph_query |-> "call_graph_query",
                       code_analyst |-> "call_code_analyst",
                       both |-> "call_graph_query",
                       synthesize |-> "synthesize"],
     call_graph_query |-> [code_analyst |-> "call_code_analyst",
                           synthesize |-> "synthesize"],
     call_code_analyst |-> "synthesize",
     synthesize |-> "END"]

\* AgentResponse(agent_type, success), as a field of the AgentState
AgentResponse(agent_type, success) ==
    <<[agent_type |-> agent_type, success |-> success]>>

\* process_query begins: the initial state is handed to ainvoke
ProcessQuery(session_id, query) ==
    /\ flow.node = "idle"
    /\ Len(memory.added[session_id]) + 2 <= MaxAdds
    /\ flow' = AgentState(BuildGraph.entry_point, session_id, query)
    /\ UNCHANGED <<storeVars, toolVars, parseVars, jobVars, queryVars,
                   memory, cache, retry>>

\* analyze_query returns an intent, its own fallback when the model fails
AnalyzeQueryNode ==
    /\ flow.node = "analyze_query"
    /\ \E query_intent \in Intents :
          flow' = [flow EXCEPT !.query_intent = <<query_intent>>,
                               !.trace = Append(@, "analyze_query"),
                               !.node = BuildGraph.analyze_query]
    /\ UNCHANGED <<storeVars, toolVars, parseVars, jobVars, queryVars,
                   memory, cache, retry>>

RouteAgentsNode ==
    /\ flow.node = "route_agents"
    /\ LET agents_to_invoke == RouteToAgents(flow.query_intent[1])
       IN  flow' = [flow EXCEPT
                      !.agents_to_invoke = agents_to_invoke,
                      !.trace = Append(@, "route_agents"),
                      !.node = BuildGraph.route_agents[
                                   ShouldCallAgents(agents_to_invoke)]]
    /\ UNCHANGED <<storeVars, toolVars, parseVars, jobVars, queryVars,
                   memory, cache, retry>>

\* find_entity is awaited for the entities only; what it raises is caught
CallGraphQueryNode ==
    /\ flow.node = "call_graph_query"
    /\ \E success \in (IF flow.query_intent[1].entities # <<>>
                       THEN BOOLEAN ELSE {TRUE}) :
          flow' = [flow EXCEPT
                     !.graph_query_response =
                         AgentResponse("graph_query", success),
                     !.trace = Append(@, "call_graph_query"),
                     !.node = BuildGraph.call_graph_query[
                                  AfterGraphQuery(flow.agents_to_invoke)]]
    /\ UNCHANGED <<storeVars, toolVars, parseVars, jobVars, queryVars,
                   memory, cache, retry>>

\* explain_implementation is awaited for the first entity; what it raises is
\* caught
CallCodeAnalystNode ==
    /\ flow.node = "call_code_analyst"
    /\ \E success \in (IF flow.query_intent[1].entities # <<>>
                       THEN BOOLEAN ELSE {TRUE}) :
          flow' = [flow EXCEPT
                     !.code_analyst_response =
                         AgentResponse("code_analyst", success),
                     !.trace = Append(@, "call_code_analyst"),
                     !.node = BuildGraph.call_code_analyst]
    /\ UNCHANGED <<storeVars, toolVars, parseVars, jobVars, queryVars,
                   memory, cache, retry>>

\* synthesize_response: without a successful agent output it returns a fixed
\* sentence; otherwise the model answers, or the call raises
\* OrchestratorError once its retries are used up, and ainvoke raises
SynthesizeNode ==
    /\ flow.node = "synthesize"
    /\ LET agent_responses ==
               flow.graph_query_response \o flow.code_analyst_response
           agent_outputs ==
               {k \in DOMAIN agent_responses : agent_responses[k].success}
       IN  IF agent_outputs = {}
           THEN flow' = [flow EXCEPT
                           !.synthesized_response = <<"no information">>,
                           !.trace = Append(@, "synthesize"),
                           !.node = BuildGraph.synthesize]
           ELSE \/ flow' = [flow EXCEPT
                              !.synthesized_response = <<"answer">>,
                              !.trace = Append(@, "synthesize"),
                              !.node = BuildGraph.synthesize]
                \/ flow' = [flow EXCEPT
                              !.trace = Append(@, "synthesize"),
                              !.node = "raised"]
    /\ UNCHANGED <<storeVars, toolVars, parseVars, jobVars, queryVars,
                   memory, cache, retry>>

\* ainvoke returned or raised: process_query stores the exchange on success
\* and answers with the error otherwise
ProcessQueryReturn ==
    /\ flow.node \in {"END", "raised"}
    /\ IF flow.node = "END"
       THEN LET response == IF flow.synthesized_response # <<>>
                            THEN flow.synthesized_response[1]
                            ELSE "No response generated"
                c1 == AddUserMessage(memory.conversations, memory.max_history,
                                     flow.session_id, flow.query)
                c2 == AddAssistantMessage(c1, memory.max_history,
                                          flow.session_id, response)
            IN  memory' = [memory EXCEPT
                             !.conversations = c2,
                             !.added[flow.session_id] =
                                 @ \o <<Message("user", flow.query),
                                        Message("assistant", response)>>]
       ELSE UNCHANGED memory
    /\ flow' = AgentState("idle", "", "")
    /\ UNCHANGED <<storeVars, toolVars, parseVars, jobVars, queryVars,
                   cache, retry>>

\* any other caller of add_message
AddMessageCall(session_id, message) ==
    /\ Len(memory.added[session_id]) < MaxAdds
    /\ memory' = [memory EXCEPT
                    !.conversations = AddMessage(@, memory.max_history,
                                                 session_id, message),
                    !.added[session_id] = Append(@, message)]
    /\ UNCHANGED <<storeVars, toolVars, parseVars, jobVars, queryVars,
                   flow, cache, retry>>

\* get_conversation_memory: max_history is the setting, a positive number
InitChat ==
    /\ InitStore
    /\ ~storeUp
    /\ InitNoText
    /\ repo = <<>>
    /\ cloneExists = FALSE
    /\ InitNoJobs
    /\ InitNoQuery
    /\ flow = AgentState("idle", "", "")
    /\ \E max_history \in 1..MaxHistory :
          memory = [max_history |-> max_history,
                    conversations |-> [s \in Sessions |-> <<>>],
                    added |-> [s \in Sessions |-> <<>>]]
    /\ cache = [now |-> 0, entries |-> <<>>, sets |-> <<>>, got |-> None]
    /\ retry = [pc |-> "idle", max_retries |-> 0, attempt |-> 0,
                current_delay |-> 1, backoff |-> 2,
                last_exception |-> <<>>, attempts |-> <<>>,
                sleeps |-> <<>>, outcome |-> <<>>]

Ainvoke ==
    \/ AnalyzeQueryNode
    \/ RouteAgentsNode
    \/ CallGraphQueryNode
    \/ CallCodeAnalystNode
    \/ SynthesizeNode

NextChat ==
    \/ \E session_id \in Sessions : ProcessQuery(session_id, "q")
    \/ Ainvoke
    \/ ProcessQueryReturn
    \/ \E session_id \in Sessions :
          AddMessageCall(session_id, Message("system", "note"))

\* the event loop runs the workflow to its end
SpecChat == InitChat /\ [][NextChat]_vars /\ WF_vars(Ainvoke)

(***************************************************************************)
(* The orchestrator and the conversation memory.                           *)
(***************************************************************************)
\* the places of a node in the nodes the workflow has run
Ran(n) == {k \in DOMAIN flow.trace : flow.trace[k] = n}

Selected(agent_type) ==
    \E k \in DOMAIN flow.agents_to_invoke :
        flow.agents_to_invoke[k] = agent_type

WorkflowOrder ==
    /\ \A k \in Ran("route_agents") : \E j \in Ran("analyze_query") : j < k
    /\ \A k \in Ran("call_graph_query") \cup Ran("call_code_analyst") :
          \E j \in Ran("route_agents") : j < k
    /\ Cardinality(Ran("call_graph_query")) <= 1
    /\ Cardinality(Ran("call_code_analyst")) <= 1
    /\ Ran("call_graph_query") # {} => Selected("graph_query")
    /\ Ran("call_code_analyst") # {} => Selected("code_analyst")
    /\ (Selected("graph_query") /\ Selected("code_analyst")) =>
          \A k \in Ran("call_code_analyst") :
              \E j \in Ran("call_graph_query") : j < k
    /\ Cardinality(Ran("synthesize")) <= 1
    /\ \A k \in Ran("synthesize") : k = Len(flow.trace)
    /\ Ran("synthesize") # {} <=> flow.node \in {"END", "raised"}

\* C26: in every run of the workflow query analysis precedes routing, each
\* agent node runs at most once and only if routing selected its agent,
\* graph-query runs before code-analyst when both are selected, synthesis
\* runs exactly once, as the last node, and the workflow then ends; a run
\* that has begun reaches that end, also when an agent call fails.
C26_WorkflowOrdering ==
    /\ []WorkflowOrder
    /\ (flow.node = "analyze_query") ~> (flow.node \in {"END", "raised"})

\* the workflow ended after both agents ran and the graph-query call failed
C26_Witness ==
    /\ flow.node = "END"
    /\ flow.trace = <<"analyze_query", "route_agents", "call_graph_query",
                      "call_code_analyst", "synthesize">>
    /\ ~flow.graph_query_response[1].success

\* the last n elements of a sequence
LastN(n, seq) ==
    IF Len(seq) > n THEN SubSeq(seq, Len(seq) - n + 1, Len(seq)) ELSE seq

\* the step in which process_query returns
Returns(node) == flow.node = node /\ flow'.node = "idle"

Exchange ==
    <<Message("user", flow.query),
      Message("assistant", flow.synthesized_response[1])>>

\* C27: when the workflow succeeds process_query appends the user message
\* and then the assistant message to the history of the session, and when
\* the workflow raises the conversation memory is unchanged.
C27_MemoryUpdate ==
    [][/\ Returns("END") =>
            LET old == memory.conversations[flow.session_id]
                new == memory'.conversations[flow.session_id]
            IN  /\ Len(new) >= 2
                /\ SubSeq(new, Len(new) - 1, Len(new)) = Exchange
                /\ SubSeq(new, 1, Len(new) - 2)
                     = LastN(Len(new) - 2, old)
                /\ \A s \in Sessions \ {flow.session_id} :
                      memory'.conversations[s] = memory.conversations[s]
       /\ Returns("raised") => memory' = memory]_vars

\* C27 (amended): when the workflow succeeds the history of the session
\* becomes the max_history most recent messages of the old history followed
\* by the user message and the assistant message, and no other session
\* changes; when the workflow raises the conversation memory is unchanged.
C27_MemoryUpdateBounded ==
    [][/\ Returns("END") =>
            /\ memory'.conversations[flow.session_id]
                 = LastN(memory.max_history,
                         memory.conversations[flow.session_id] \o Exchange)
            /\ \A s \in Sessions \ {flow.session_id} :
                  memory'.conversations[s] = memory.conversations[s]
       /\ Returns("raised") => memory' = memory]_vars

\* process_query stored an exchange in a history that was full
C27_Witness ==
    \E s \in Sessions :
        LET a == memory.added[s]
        IN  /\ Len(a) > memory.max_history
            /\ Len(a) >= 2
            /\ a[Len(a) - 1].role = "user"
            /\ a[Len(a)].role = "assistant"
            /\ memory.conversations[s] = LastN(memory.max_history, a)

\* C28: after any add_message calls every session holds at most max_history
\* messages, they are the most recently added messages of the session in
\* the order they were added, and adding to one session changes no other.
C28_BoundedHistory ==
    /\ [](\A s \in Sessions :
            /\ Len(memory.conversations[s]) <= memory.max_history
            /\ memory.conversations[s]
                 = LastN(memory.max_history, memory.added[s])
            /\ GetHistory(memory.conversations, s,
                          [type |-> "NoneType", value |-> 0])
                 = memory.conversations[s])
    /\ [][\A s \in Sessions :
            memory'.added[s] = memory.added[s]
            => memory'.conversations[s] = memory.conversations[s]]_vars

\* a session lost its oldest message while the other session holds one
C28_Witness ==
    \E s, t \in Sessions :
        /\ s # t
        /\ Len(memory.added[s]) > memory.max_history
        /\ memory.conversations[s] # <<>>
        /\ memory.conversations[t] # <<>>

(***************************************************************************)
(* The response cache (memory/cache.py).  cache.now is what time.time()    *)
(* returns, in whole seconds.  cache.sets observes, for every (query,      *)
(* context) pair, the last set made for that pair and whether an           *)
(* invalidate of the pair or a clear followed it; cache.got is what the    *)
(* last get returned.                                                      *)
(***************************************************************************)
\* the seconds the clock runs
MaxTime == 2
\* the largest response_cache_ttl configured (settings: gt = 0)
MaxTtl == 1

\* the (query, context) pairs callers use; a context is None or a string
Pairs ==
    {[query |-> <<"a">>, context |-> None],
     [query |-> <<"a">>, context |-> <<"b">>],
     [query |-> <<"a", "|", "b">>, context |-> None]}

\* key_data is the query, followed by "|" and the context when the context
\* is not None and not empty; the SHA-256 digest of key_data is taken to be
\* distinct for distinct key_data, so key_data stands for the key
GenerateKey(query, context) ==
    IF context # None /\ context # <<>>
    THEN query \o <<"|">> \o context
    ELSE query

IsExpired(entry, now) == now - entry.created_at > entry.ttl

\* the entries without the given keys
Without(entries, keys) ==
    [k \in DOMAIN entries \ keys |-> entries[k]]

\* set(query, value, context, ttl): ttl None stands for default_ttl
CacheSet(pair, value, ttl) ==
    LET key == GenerateKey(pair.query, pair.context)
        t == IF ttl.type = "int" THEN ttl.value ELSE cache.default_ttl
        entry == [value |-> value, created_at |-> cache.now, ttl |-> t]
        made == [value |-> value, at |-> cache.now, ttl |-> t, live |-> TRUE]
    IN  /\ cache' = [cache EXCEPT
                       !.entries = [k \in DOMAIN @ \cup {key} |->
                                      IF k = key THEN entry ELSE @[k]],
                       !.sets = [p \in DOMAIN @ \cup {pair} |->
                                   IF p = pair THEN made ELSE @[p]],
                       !.got = <<>>]
        /\ UNCHANGED <<storeVars, toolVars, parseVars, jobVars, queryVars,
                       flow, memory, retry>>

\* get(query, context): None, written <<>>, when the key is missing or its
\* entry expired, which also removes the entry; <<value>> otherwise
CacheGet(pair) ==
    LET key == GenerateKey(pair.query, pair.context)
    IN  /\ IF key \notin DOMAIN cache.entries
           THEN cache' = [cache EXCEPT !.got = <<[pair |-> pair,
                                                  value |-> <<>>]>>]
           ELSE IF IsExpired(cache.entries[key], cache.now)
           THEN cache' = [cache EXCEPT
                            !.entries = Without(@, {key}),
                            !.got = <<[pair |-> pair, value |-> <<>>]>>]
           ELSE cache' = [cache EXCEPT
                            !.got = <<[pair |-> pair,
                                       value |-> <<cache.entries[key].value>>]>>]
        /\ UNCHANGED <<storeVars, toolVars, parseVars, jobVars, queryVars,
                       flow, memory, retry>>

Invalidate(pair) ==
    LET key == GenerateKey(pair.query, pair.context)
    IN  /\ cache' = [cache EXCEPT
                       !.entries = IF key \in DOMAIN @
                                   THEN Without(@, {key}) ELSE @,
                       !.sets = [p \in DOMAIN @ |->
                                   IF p = pair THEN [@[p] EXCEPT !.live = FALSE]
                                   ELSE @[p]],
                       !.got = <<>>]
        /\ UNCHANGED <<storeVars, toolVars, parseVars, jobVars, queryVars,
                       flow, memory, retry>>

Clear ==
    /\ cache' = [cache EXCEPT
                   !.entries = Without(@, DOMAIN @),
                   !.sets = [p \in DOMAIN @ |-> [@[p] EXCEPT !.live = FALSE]],
                   !.got = <<>>]
    /\ UNCHANGED <<storeVars, toolVars, parseVars, jobVars, queryVars,
                   flow, memory, retry>>

CleanupExpired ==
    /\ cache' = [cache EXCEPT
                   !.entries =
                       Without(@, {k \in DOMAIN @ :
                                     IsExpired(@[k], cache.now)}),
                   !.got = <<>>]
    /\ UNCHANGED <<storeVars, toolVars, parseVars, jobVars, queryVars,
                   flow, memory, retry>>

\* a second passes
Tick ==
    /\ cache.now < MaxTime
    /\ cache' = [cache EXCEPT !.now = @ + 1, !.got = <<>>]
    /\ UNCHANGED <<storeVars, toolVars, parseVars, jobVars, queryVars,
                   flow, memory, retry>>

\* get_response_cache: default_ttl is the setting, a positive number
InitCache ==
    /\ InitStore
    /\ ~storeUp
    /\ InitNoText
    /\ repo = <<>>
    /\ cloneExists = FALSE
    /\ InitNoJobs
    /\ InitNoQuery
    /\ flow = AgentState("idle", "", "")
    /\ memory = [max_history |-> 1, conversations |-> <<>>, added |-> <<>>]
    /\ \E default_ttl \in 1..MaxTtl :
          cache = [now |-> 0, default_ttl |-> default_ttl,
                   entries |-> [k \in {} |-> None],
                   sets |-> [p \in {} |-> None],
                   got |-> <<>>]
    /\ retry = [pc |-> "idle", max_retries |-> 0, attempt |-> 0,
                current_delay |-> 1, backoff |-> 2,
                last_exception |-> <<>>, attempts |-> <<>>,
                sleeps |-> <<>>, outcome |-> <<>>]

NextCache ==
    \/ \E pair \in Pairs, value \in {"v1", "v2"},
          ttl \in {[type |-> "NoneType", value |-> 0],
                   [type |-> "int", value |-> 0]} :
          CacheSet(pair, value, ttl)
    \/ \E pair \in Pairs : CacheGet(pair)
    \/ \E pair \in Pairs : Invalidate(pair)
    \/ Clear
    \/ CleanupExpired
    \/ Tick

SpecCache == InitCache /\ [][NextCache]_vars

(***************************************************************************)
(* The response cache: claims.                                             *)
(***************************************************************************)
\* what the claim lets get return for a pair: the value of the last set for
\* the pair when it is no older than its TTL and was neither invalidated nor
\* cleared, and None otherwise
Fresh(pair) ==
    IF /\ pair \in DOMAIN cache.sets
       /\ cache.sets[pair].live
       /\ cache.now - cache.sets[pair].at <= cache.sets[pair].ttl
    THEN <<cache.sets[pair].value>>
    ELSE <<>>

\* C29: get(query, context) returns the value most recently set for that
\* pair if the set is no older than its TTL and was not invalidated or
\* cleared since, and None otherwise; never a value set for another pair.
C29_CacheFreshness ==
    [][(cache'.got # <<>> /\ cache'.got # cache.got)
       => cache'.got[1].value = Fresh(cache'.got[1].pair)]_vars

(***************************************************************************)
(* async_retry (utils/helpers.py): one call of the wrapper around a        *)
(* function whose attempts return a result, raise an exception of the      *)
(* classes in `exceptions`, or raise one outside them.  retry.attempts     *)
(* observes how each invocation of the function ended, retry.sleeps the    *)
(* delays slept.  Optional values are <<>> for None and <<value>>.         *)
(***************************************************************************)
\* the largest max_retries a function is wrapped with
MaxRetries == 3

\* how one invocation of the wrapped function can end
Outcomes ==
    {[kind |-> "return", value |-> "r1"],
     [kind |-> "return", value |-> "r2"],
     [kind |-> "caught", value |-> "E1"],
     [kind |-> "caught", value |-> "E2"],
     [kind |-> "uncaught", value |-> "B"]}

\* the wrapper is called: current_delay = delay, last_exception = None, and
\* the loop starts at attempt 0
Wrapper(max_retries) ==
    /\ retry.pc = "idle"
    /\ retry' = [pc |-> "attempt", max_retries |-> max_retries,
                 attempt |-> 0, current_delay |-> 1, backoff |-> 2,
                 last_exception |-> <<>>, attempts |-> <<>>,
                 sleeps |-> <<>>, outcome |-> <<>>]
    /\ UNCHANGED <<storeVars, toolVars, parseVars, jobVars, queryVars,
                   flow, memory, cache>>

Except_KeepFirst(r, e) ==
    [r EXCEPT !.last_exception = IF @ = <<>> THEN <<e>> ELSE @,
              !.pc = IF r.attempt < r.max_retries THEN "sleep" ELSE "raised",
              !.outcome = IF r.attempt < r.max_retries THEN <<>>
                          ELSE IF r.last_exception = <<>> THEN <<e>>
                          ELSE r.last_exception]

\* the except clause: the exception is kept; a sleep follows unless this was
\* the last attempt, after which the loop ends and last_exception is raised
Except(r, e) ==
    [r EXCEPT !.last_exception = <<e>>,
              !.pc = IF r.attempt < r.max_retries THEN "sleep" ELSE "raised",
              !.outcome = IF r.attempt < r.max_retries THEN <<>> ELSE <<e>>]

\* one pass of the loop body up to its first await or its exit
Attempt ==
    /\ retry.pc = "attempt"
    /\ \E o \in Outcomes :
          LET r == [retry EXCEPT !.attempts = Append(@, o)]
          IN  retry' = CASE o.kind = "return" ->
                               [r EXCEPT !.pc = "returned",
                                         !.outcome = <<o.value>>]
                         [] o.kind = "caught" -> Except(r, o.value)
                         [] o.kind = "uncaught" ->
                               [r EXCEPT !.pc = "raised",
                                         !.outcome = <<o.value>>]
    /\ UNCHANGED <<storeVars, toolVars, parseVars, jobVars, queryVars,
                   flow, memory, cache>>

\* asyncio.sleep(current_delay) returns; the delay grows and the loop goes on
Sleep ==
    /\ retry.pc = "sleep"
    /\ retry' = [retry EXCEPT !.sleeps = Append(@, retry.current_delay),
                              !.current_delay = @ * retry.backoff,
                              !.attempt = @ + 1,
                              !.pc = "attempt"]
    /\ UNCHANGED <<storeVars, toolVars, parseVars, jobVars, queryVars,
                   flow, memory, cache>>

InitRetry ==
    /\ InitStore
    /\ ~storeUp
    /\ InitNoText
    /\ repo = <<>>
    /\ cloneExists = FALSE
    /\ InitNoJobs
    /\ InitNoQuery
    /\ flow = AgentState("idle", "", "")
    /\ memory = [max_history |-> 1, conversations |-> <<>>, added |-> <<>>]
    /\ cache = [now |-> 0, entries |-> <<>>, sets |-> <<>>, got |-> None]
    /\ retry = [pc |-> "idle", max_retries |-> 0, attempt |-> 0,
                current_delay |-> 1, backoff |-> 2,
                last_exception |-> <<>>, attempts |-> <<>>,
                sleeps |-> <<>>, outcome |-> <<>>]

NextRetry ==
    \/ \E max_retries \in 0..MaxRetries : Wrapper(max_retries)
    \/ Attempt
    \/ Sleep

\* an attempt that is awaited ends, and so does a sleep
SpecRetry ==
    InitRetry /\ [][NextRetry]_vars /\ WF_vars(Attempt) /\ WF_vars(Sleep)

(***************************************************************************)
(* async_retry: claims.                                                    *)
(***************************************************************************)
Failed(k) == retry.attempts[k].kind # "return"

RetryBounds ==
    LET calls == Len(retry.attempts)
        n == retry.max_retries
    IN  /\ calls <= n + 1
        /\ \A k \in 1..(calls - 1) : retry.attempts[k].kind = "caught"
        /\ retry.pc = "returned" =>
              /\ retry.attempts[calls].kind = "return"
              /\ retry.outcome = <<retry.attempts[calls].value>>
        /\ retry.pc = "raised" =>
              /\ Failed(calls)
              /\ retry.outcome = <<retry.attempts[calls].value>>
              /\ retry.attempts[calls].kind = "caught" => calls = n + 1
        /\ retry.pc = "attempt" => Len(retry.sleeps) = calls
        /\ retry.pc = "sleep" =>
              Len(retry.sleeps) = calls - 1 /\ calls <= n
        /\ retry.pc \in {"returned", "raised"} =>
              Len(retry.sleeps) = calls - 1

\* C30: one call of a function wrapped with async_retry(max_retries = n)
\* invokes it at most n + 1 times, returns the first successful result with
\* no further attempt, raises the last caught exception after n + 1
\* failures, sleeps only between two attempts, and ends.
C30_BoundedRetry ==
    /\ []RetryBounds
    /\ (retry.pc = "attempt") ~> (retry.pc \in {"returned", "raised"})

\* every attempt failed with a caught exception, the last one differing from
\* the first, and the call raised after max_retries sleeps
C30_Witness ==
    /\ retry.pc = "raised"
    /\ retry.max_retries >= 1
    /\ Len(retry.attempts) = retry.max_retries + 1
    /\ Len(retry.sleeps) = retry.max_retries
    /\ retry.attempts[1].value = "E1"
    /\ retry.outcome = <<"E2">>
====
